---- MODULE Spec2Model ----
(***************************************************************************)
(* Model of the editing core of odo: the grapheme Row (core/row.rs), its   *)
(* edit and query operations and its highlighting.                         *)
(*                                                                         *)
(* A Rust String is modelled as a sequence of code points.  Every code     *)
(* point keeps its UTF-8 width, so that byte offsets (String::len,         *)
(* str::find, byte slicing) and code point counts (chars().count()) and    *)
(* grapheme counts (graphemes(true).count()) stay three different numbers. *)
(***************************************************************************)
EXTENDS Integers, Sequences, FiniteSets, TLC

VARIABLES row, pre, call, ret, panicked, editor, frames, keyed, threads

vars == <<row, pre, call, ret, panicked, editor, frames, keyed, threads>>

\* The row under test with the record of the last call on it, and what
\* lies outside it: the editing session with the record of the last key
\* it was given, and the threads that highlight rows of markup.
rowvars == <<row, pre, call, ret>>

session == <<editor, frames, keyed, threads>>

\* ------------------------------------------------------------------ bounds
\* Longest row text, in code points.
MaxLen == 3
\* Longest search query, in code points.
MaxQuery == 1
\* Longest row text of the highlighting state machine, in code points.
HlMaxLen == 2
\* Longest row text of the carry-in state machine, in code points.
CarryMaxLen == 4
\* Most leading stars of a headline, most whitespace characters between the
\* stars and the keyword, and longest title after the keyword, in code points.
OrgMaxStars == 2
OrgMaxGap == 2
OrgMaxTitle == 2
\* Longest row text of the keyword state machine, in code points.
KwMaxLen == 3
\* Longest row text of the rendering state machine, in code points.
RenderMaxLen == 3
\* Size of the terminal window, in columns and in rows of text.
TermWidth == 2
TermHeight == 2
\* Most rows of a document and longest row, in characters.
MaxRows == 3
MaxCols == 2
\* Most digits of a count typed in Normal mode.
MaxDigits == 1
\* In the state machine of counts: most digits of a count, as many as the
\* largest usize has, and the digits of a count that are typed freely
\* before only nines follow.
LongDigits == 20
ShortDigits == 2
\* Longest text typed at a prompt.
MaxPrompt == 1
\* Most rows, and longest row, of a document that a session edits.
EditRows == 2
EditCols == 1
\* rows and columns of a document that is typed into
TypeRows == 2
TypeCols == 2
\* Threads that highlight markup rows at the same time.
MaxThreads == 3
\* Longest search word handed to Row::highlight, in code points.
MaxWord == 1

\* --------------------------------------------------------------- code points
\* "m" stands for U+0301 COMBINING ACUTE ACCENT (Grapheme_Extend, 2 bytes),
\* "R" for a regional indicator such as U+1F1FA (4 bytes); the others are
\* the ASCII characters they show.
Chars == {"a", "*", "/", "m", "R"}

Utf8Len(c) == IF c = "m" THEN 2 ELSE IF c = "R" THEN 4 ELSE 1

IsExtend(c) == c = "m"

IsRegionalIndicator(c) == c = "R"

RECURSIVE SeqsUpTo(_)
SeqsUpTo(n) ==
    IF n = 0 THEN {<<>>}
    ELSE LET shorter == SeqsUpTo(n - 1)
         IN  shorter \cup {Append(s, c) : s \in {t \in shorter : Len(t) = n - 1}, c \in Chars}

Queries == SeqsUpTo(MaxQuery)

\* String::len(): the length in bytes.
RECURSIVE ByteLen(_)
ByteLen(s) == IF s = <<>> THEN 0 ELSE Utf8Len(Head(s)) + ByteLen(Tail(s))

\* The byte offset at which the code point after the first k ones starts.
ByteOffset(s, k) == ByteLen(SubSeq(s, 1, k))

\* str::is_char_boundary
IsCharBoundary(s, b) == \E k \in 0..Len(s) : ByteOffset(s, k) = b

\* s[b..] for a byte offset b that is a char boundary
ByteSuffix(s, b) ==
    LET k == CHOOSE j \in 0..Len(s) : ByteOffset(s, j) = b
    IN  SubSeq(s, k + 1, Len(s))

IsPrefixAt(s, q, k) ==
    /\ k + Len(q) <= Len(s)
    /\ SubSeq(s, k + 1, k + Len(q)) = q

\* str::find: the byte offset of the first occurrence, <<>> for None.
StrFind(s, q) ==
    LET hits == {k \in 0..Len(s) : IsPrefixAt(s, q, k)}
    IN  IF hits = {} THEN <<>>
        ELSE <<ByteOffset(s, CHOOSE k \in hits : \A j \in hits : k <= j)>>

\* str::rfind: the byte offset of the last occurrence, <<>> for None.
StrRFind(s, q) ==
    LET hits == {k \in 0..Len(s) : IsPrefixAt(s, q, k)}
    IN  IF hits = {} THEN <<>>
        ELSE <<ByteOffset(s, CHOOSE k \in hits : \A j \in hits : k >= j)>>

\* ---------------------------------------------------- grapheme segmentation
\* Number of regional indicators that end right before code point k.
RECURSIVE RiRun(_, _)
RiRun(s, k) ==
    IF k > 1 /\ IsRegionalIndicator(s[k - 1]) THEN 1 + RiRun(s, k - 1) ELSE 0

\* UAX #29 extended grapheme clusters over Chars: no break before an Extend
\* (GB9), none between the two regional indicators of a pair (GB12, GB13),
\* a break everywhere else (GB999) and at the start of text (GB1).
IsBreak(s, k) ==
    \/ k = 1
    \/ /\ ~IsExtend(s[k])
       /\ ~(IsRegionalIndicator(s[k]) /\ RiRun(s, k) % 2 = 1)

\* The first break after code point k, or Len(s) + 1 when there is none.
RECURSIVE NextBreak(_, _)
NextBreak(s, k) ==
    IF k + 1 > Len(s) \/ IsBreak(s, k + 1) THEN k + 1 ELSE NextBreak(s, k + 1)

\* graphemes(true) from code point k on: the clusters, in order.
RECURSIVE GraphemesFrom(_, _)
GraphemesFrom(s, k) ==
    IF k > Len(s) THEN <<>>
    ELSE LET next == NextBreak(s, k)
         IN  <<SubSeq(s, k, next - 1)>> \o GraphemesFrom(s, next)

\* graphemes(true)
Graphemes(s) == GraphemesFrom(s, 1)

\* graphemes(true).count()
GraphemeCount(s) == Len(Graphemes(s))

RECURSIVE Flatten(_)
Flatten(ss) == IF ss = <<>> THEN <<>> ELSE Head(ss) \o Flatten(Tail(ss))

\* ------------------------------------------------------------------- Row
\* impl From<&str> for Row
RowFrom(slice) ==
    [string |-> slice, highlighting |-> <<>>, is_highlighted |-> FALSE,
     len |-> GraphemeCount(slice)]

\* The loop of Row::insert over the graphemes of the row: c goes in before
\* grapheme at, and the length is counted along.
InsertLoop(r, at, c) ==
    LET g == Graphemes(r.string)
        result == Flatten([i \in 1..Len(g) |->
                               IF i - 1 = at THEN <<c>> \o g[i] ELSE g[i]])
        length == Len(g) + (IF at < Len(g) THEN 1 ELSE 0)
    IN  [r EXCEPT !.string = result, !.len = length]

\* Row::insert with `at > self.len()` for its guard: an insert at index len
\* runs the loop, which never meets that index.
RowInsertOffByOne(r, at, c) ==
    IF at > r.len
    THEN [r EXCEPT !.string = Append(@, c), !.len = @ + 1]
    ELSE InsertLoop(r, at, c)

\* Row::insert
RowInsert(r, at, c) ==
    IF at >= r.len
    THEN [r EXCEPT !.string = Append(@, c), !.len = @ + 1]
    ELSE InsertLoop(r, at, c)

\* Row::delete
RowDelete(r, at) ==
    IF at >= r.len
    THEN r
    ELSE LET g == Graphemes(r.string)
             result == Flatten([i \in 1..Len(g) |->
                                    IF i - 1 # at THEN g[i] ELSE <<>>])
             length == Cardinality({i \in 1..Len(g) : i - 1 # at})
         IN  [r EXCEPT !.string = result, !.len = length]

\* Row::append
RowAppend(r, new) ==
    [r EXCEPT !.string = @ \o new.string, !.len = @ + new.len]

\* Row::split: the truncated row and the row split off.
RowSplit(r, at) ==
    LET g == Graphemes(r.string)
        keep == {i \in 1..Len(g) : i - 1 < at}
        n == Cardinality(keep)
    IN  [left |-> [r EXCEPT !.string = Flatten(SubSeq(g, 1, n)),
                            !.len = n,
                            !.is_highlighted = FALSE],
         right |-> [string |-> Flatten(SubSeq(g, n + 1, Len(g))),
                    len |-> Len(g) - n,
                    is_highlighted |-> FALSE,
                    highlighting |-> <<>>]]

\* skip(n): the sequence without its first n elements
Skip(g, n) == SubSeq(g, n + 1, Len(g))

\* take(n): at most the first n elements
Take(g, n) == SubSeq(g, 1, IF n < Len(g) THEN n ELSE Len(g))

\* Row::find: <<>> for None, <<i>> for Some(i).
RowFind(r, query, at, direction) ==
    IF at > r.len \/ query = <<>>
    THEN <<>>
    ELSE LET start == IF direction = "Forward" THEN at ELSE 0
             end == IF direction = "Forward" THEN r.len ELSE at
             parts == Take(Skip(Graphemes(r.string), start), end - start)
             substring == Flatten(parts)
             matching_byte_index ==
                 IF direction = "Forward" THEN StrFind(substring, query)
                 ELSE StrRFind(substring, query)
             \* substring.grapheme_indices(true): the byte offset of each
             \* grapheme of the substring
             clusters == Graphemes(substring)
             byte_index(i) == ByteLen(Flatten(SubSeq(clusters, 1, i - 1)))
             hits == {i \in 1..Len(clusters) :
                          matching_byte_index = <<byte_index(i)>>}
         IN  IF matching_byte_index = <<>> \/ hits = {} THEN <<>>
             ELSE <<start + (CHOOSE i \in hits : \A j \in hits : i <= j) - 1>>

\* ------------------------------------------------------------ highlighting
\* highlighting::Type
Types ==
    {"None", "Number", "Match", "String", "Character", "Comment",
     "MultilineComment", "PrimaryKeywords", "SecondaryKeywords", "OrgHeadline",
     "OrgTodo", "OrgDone", "OrgTag", "OrgList", "OrgBold", "OrgItalic",
     "OrgUnderline", "OrgLink", "OrgCodeBlock"}

\* vec![t; n]
Repeat(t, n) == [i \in 1..n |-> t]

\* char::is_whitespace, on the characters the model uses
IsWhitespace(c) == c \in {" ", "\t"}

\* str::trim_start
RECURSIVE TrimStart(_)
TrimStart(s) ==
    IF s # <<>> /\ IsWhitespace(Head(s)) THEN TrimStart(Tail(s)) ELSE s

\* str::starts_with
StartsWith(s, p) == Len(p) <= Len(s) /\ SubSeq(s, 1, Len(p)) = p

\* str::contains
Contains(s, p) == \E k \in 0..Len(s) : IsPrefixAt(s, p, k)

\* The `for j in ..` loop that looks for a closing delimiter: the first
\* (lowest) of the positions js gets type t, over width entries.
MarkFirst(result, js, t, width) ==
    IF js = {} THEN result
    ELSE LET j == CHOOSE x \in js : \A y \in js : x <= y
         IN  [k \in 1..Len(result) |->
                 IF k >= j /\ k < j + width THEN t ELSE result[k]]

\* One round of the `while i < chars.len()` loop of highlight_line (i is 1-based).
OrgStyleStep(chars, result, i) ==
    LET n == Len(chars)
        open(t) == [result EXCEPT ![i] = t]
        same == {j \in (i + 1)..n : chars[j] = chars[i]}
        closes == {j \in (i + 2)..(n - 1) : chars[j] = "]" /\ chars[j + 1] = "]"}
    IN  IF ~(i - 1 < n - 1) THEN result
        ELSE IF chars[i] = "*" /\ chars[i + 1] # " "
             THEN MarkFirst(open("OrgBold"), same, "OrgBold", 1)
        ELSE IF chars[i] = "/" /\ chars[i + 1] # " "
             THEN MarkFirst(open("OrgItalic"), same, "OrgItalic", 1)
        ELSE IF chars[i] = "_" /\ chars[i + 1] # " "
             THEN MarkFirst(open("OrgUnderline"), same, "OrgUnderline", 1)
        ELSE IF chars[i] = "[" /\ chars[i + 1] = "["
             THEN MarkFirst([open("OrgLink") EXCEPT ![i + 1] = "OrgLink"],
                            closes, "OrgLink", 2)
        ELSE result

RECURSIVE OrgStyleLoop(_, _, _)
OrgStyleLoop(chars, result, i) ==
    IF i > Len(chars) THEN result
    ELSE OrgStyleLoop(chars, OrgStyleStep(chars, result, i), i + 1)

\* Number of leading '*' of the line.
RECURSIVE OrgLevel(_)
OrgLevel(chars) ==
    IF chars # <<>> /\ Head(chars) = "*" THEN 1 + OrgLevel(Tail(chars)) ELSE 0

\* OrgHighlighter::highlight_line: one Type per code point of the line.
OrgHighlightLine(line) ==
    LET chars == line
        n == Len(chars)
        level == OrgLevel(chars)
        remaining == SubSeq(line, level + 1, n)
        stars == Repeat("OrgHeadline", level)
    IN  IF StartsWith(line, <<"*">>)
        THEN IF level < n
             THEN IF StartsWith(TrimStart(remaining), <<"T", "O", "D", "O", " ">>)
                  THEN stars \o Repeat("OrgTodo", 5) \o Repeat("OrgHeadline", n - level - 5)
                  ELSE IF StartsWith(TrimStart(remaining), <<"D", "O", "N", "E", " ">>)
                  THEN stars \o Repeat("OrgDone", 5) \o Repeat("OrgHeadline", n - level - 5)
                  ELSE stars \o Repeat("OrgHeadline", n - level)
             ELSE stars
        ELSE IF StartsWith(line, <<"-", " ">>) \/ StartsWith(line, <<"+", " ">>)
                \/ StartsWith(line, <<"*", " ">>)
        THEN <<"OrgList", "OrgList">> \o Repeat("None", n - 2)
        ELSE IF Contains(line, <<":", ":">>)
        THEN [i \in 1..n |-> IF chars[i] = ":" THEN "OrgTag" ELSE "None"]
        ELSE OrgStyleLoop(chars, Repeat("None", n), 1)

\* The `for i in search_match..next_index` loop of highlight_match: stamps
\* Match on the indices (0-based) from..to-1; indexing past the end of the
\* vector panics.
StampMatch(highlighting, from, to) ==
    [highlighting |->
         [k \in 1..Len(highlighting) |->
              IF k - 1 >= from /\ k - 1 < to THEN "Match" ELSE highlighting[k]],
     panic |-> to > from /\ to > Len(highlighting)]

\* The `while let Some(search_match) = self.find(..)` loop of highlight_match.
RECURSIVE MatchLoop(_, _, _)
MatchLoop(r, word, index) ==
    LET search_match == RowFind(r, word, index, "Forward")
    IN  IF search_match = <<>> THEN [row |-> r, panic |-> FALSE]
        ELSE LET next_index == search_match[1] + GraphemeCount(word)
                 stamped == StampMatch(r.highlighting, search_match[1], next_index)
                 r2 == [r EXCEPT !.highlighting = stamped.highlighting]
             IN  IF stamped.panic THEN [row |-> r2, panic |-> TRUE]
                 ELSE MatchLoop(r2, word, next_index)

\* Row::highlight_match; word is <<>> for None and <<w>> for Some(w).
HighlightMatch(r, word) ==
    IF word = <<>> \/ word[1] = <<>> THEN [row |-> r, panic |-> FALSE]
    ELSE MatchLoop(r, word[1], 0)

\* &self.string[from..] == "*/" for a byte offset from; slicing inside a
\* code point panics.
EndsWithCloser(s, from) ==
    [panic |-> ~IsCharBoundary(s, from),
     eq |-> IsCharBoundary(s, from) /\ ByteSuffix(s, from) = <<"*", "/">>]

\* Row::highlight_org.  The lock of the shared highlighter is taken by one
\* thread and highlight_line does not panic while holding it, so lock()
\* returns Ok here.
HighlightOrg(r, word) ==
    LET classified == [r EXCEPT !.highlighting = OrgHighlightLine(r.string)]
        matched == HighlightMatch(classified, word)
    IN  IF matched.panic
        THEN [row |-> matched.row, ret |-> FALSE, panic |-> TRUE]
        ELSE [row |-> [matched.row EXCEPT !.is_highlighted = TRUE],
              ret |-> FALSE, panic |-> FALSE]

\* The already-highlighted path of Row::highlight (row.rs 354-364).
HighlightSkip(r) ==
    LET n == Len(r.highlighting)
        bytes == ByteLen(r.string)
        ends == EndsWithCloser(r.string, bytes - 2)
    IN  IF n > 0 /\ r.highlighting[n] = "MultilineComment" /\ bytes > 1
        THEN IF ends.panic THEN [row |-> r, ret |-> FALSE, panic |-> TRUE]
             ELSE [row |-> r, ret |-> ends.eq, panic |-> FALSE]
        ELSE [row |-> r, ret |-> FALSE, panic |-> FALSE]

\* The recomputing path of Row::highlight (row.rs 365-388).
HighlightCode(r, word, start_with_comment) ==
    LET in_ml_comment == start_with_comment
        found == StrFind(r.string, <<"*", "/">>)
        closing_index == IF found # <<>> THEN found[1] + 2 ELSE Len(r.string)
        painted == [r EXCEPT !.highlighting =
                        IF in_ml_comment THEN Repeat("MultilineComment", closing_index)
                        ELSE <<>>]
        matched == HighlightMatch(painted, word)
        bytes == ByteLen(r.string)
        ends == EndsWithCloser(r.string, IF bytes >= 2 THEN bytes - 2 ELSE 0)
    IN  IF matched.panic THEN [row |-> matched.row, ret |-> FALSE, panic |-> TRUE]
        ELSE IF in_ml_comment /\ ends.panic
        THEN [row |-> matched.row, ret |-> FALSE, panic |-> TRUE]
        ELSE IF in_ml_comment /\ ~ends.eq
        THEN [row |-> matched.row, ret |-> TRUE, panic |-> FALSE]
        ELSE [row |-> [matched.row EXCEPT !.is_highlighted = TRUE],
              ret |-> FALSE, panic |-> FALSE]

\* is_separator: c.is_ascii_punctuation() || c.is_ascii_whitespace()
IsSeparator(c) == c \in {"*", "/", " ", "\t"}

\* FileType::is_org
IsOrg(file_type) == file_type = "org"

\* Row::highlight: the row afterwards, the carry flag returned, and whether
\* the call panicked.
RowHighlight(r, word, start_with_comment, file_type) ==
    IF IsOrg(file_type) THEN HighlightOrg(r, word)
    ELSE IF r.is_highlighted /\ word = <<>> THEN HighlightSkip(r)
    ELSE HighlightCode(r, word, start_with_comment)

\* ----------------------------------------------------------------- render
\* The rendered String as a sequence of pieces: <<"color", t>> for the
\* escape sequence Fg(t.to_color()), <<"char", c>> for a character pushed,
\* <<"reset", "">> for Fg(color::Reset).
\* The body of the `for (index, grapheme)` loop of Row::render over the
\* clusters index..last (0-based), with current_highlighting as it stands.
RECURSIVE RenderLoop(_, _, _, _, _)
RenderLoop(clusters, highlighting, index, last, current_highlighting) ==
    IF index > last \/ index >= Len(clusters) THEN <<>>
    ELSE LET grapheme == clusters[index + 1]
             c == grapheme[1]
             highlighting_type == IF index < Len(highlighting)
                                  THEN highlighting[index + 1] ELSE "None"
             start_highlight == IF highlighting_type # current_highlighting
                                THEN << <<"color", highlighting_type>> >>
                                ELSE <<>>
             pushed == IF c = "\t" THEN <<"char", " ">> ELSE <<"char", c>>
         IN  start_highlight \o <<pushed>>
                 \o RenderLoop(clusters, highlighting, index + 1, last,
                               highlighting_type)

\* Row::render
RowRender(r, start, end) ==
    LET end1 == IF end < ByteLen(r.string) THEN end ELSE ByteLen(r.string)
        start1 == IF start < end1 THEN start ELSE end1
    IN  RenderLoop(Graphemes(r.string), r.highlighting, start1, end1 - 1, "None")
            \o << <<"reset", "">> >>

\* ------------------------------------------------------------------- usize
\* A usize is kept as its decimal digits, most significant first and
\* without leading zeros (zero is <<0>>), so that its 64 bits are exact.
UsizeMax == <<1, 8, 4, 4, 6, 7, 4, 4, 0, 7, 3, 7, 0, 9, 5, 5, 1, 6, 1, 5>>

\* 2^64
UsizeModulus == <<1, 8, 4, 4, 6, 7, 4, 4, 0, 7, 3, 7, 0, 9, 5, 5, 1, 6, 1, 6>>

RECURSIVE StripZeros(_)
StripZeros(n) ==
    IF Len(n) > 1 /\ Head(n) = 0 THEN StripZeros(Tail(n)) ELSE n

\* a <= b for two numbers in digits
DigitsLeq(a, b) ==
    \/ Len(a) < Len(b)
    \/ /\ Len(a) = Len(b)
       /\ \/ a = b
          \/ \E k \in 1..Len(a) :
                 /\ a[k] < b[k]
                 /\ \A j \in 1..(k - 1) : a[j] = b[j]

\* a - b for a >= b of the same number of digits, from digit k down to the
\* first, with the borrow taken by the digit to the right.
RECURSIVE SubFrom(_, _, _, _)
SubFrom(a, b, k, borrow) ==
    IF k = 0 THEN <<>>
    ELSE LET d == a[k] - b[k] - borrow
         IN  IF d < 0 THEN Append(SubFrom(a, b, k - 1, 1), d + 10)
             ELSE Append(SubFrom(a, b, k - 1, 0), d)

\* a - b for a >= b
DigitsSub(a, b) ==
    LET padded == [k \in 1..Len(a) |->
                      IF k <= Len(a) - Len(b) THEN 0 ELSE b[k - (Len(a) - Len(b))]]
    IN  StripZeros(SubFrom(a, padded, Len(a), 0))

\* n modulo 2^64, the result of wrapping arithmetic
RECURSIVE WrapUsize(_)
WrapUsize(n) ==
    IF DigitsLeq(n, UsizeMax) THEN n ELSE WrapUsize(DigitsSub(n, UsizeModulus))

\* n * 10 + digit, unbounded
TimesTenPlus(n, digit) == StripZeros(Append(n, digit))

\* The usize n as a number of loop rounds: n itself up to limit, and limit
\* for every larger n.
RECURSIVE SmallValue(_, _)
SmallValue(n, limit) ==
    IF Len(n) > 4 THEN limit
    ELSE LET v == IF Len(n) = 1 THEN n[1]
                  ELSE 10 * SmallValue(SubSeq(n, 1, Len(n) - 1), 1000) + n[Len(n)]
         IN  IF v < limit THEN v ELSE limit

\* ---------------------------------------------------------------- Document
\* A Document is [rows, dirty, file_name]: the texts of its rows in line
\* order, the dirty flag, and the file name (<<>> for none, <<name>>).  The
\* texts of a session are ASCII, one character to a grapheme, so that a row
\* is the sequence of its characters and its length their number.
\* Document::default
EmptyDocument == [rows |-> <<>>, dirty |-> FALSE, file_name |-> <<>>]

\* Document::len
DocLen(doc) == Len(doc.rows)

\* document.row(y).map_or(0, |row| row.len())
DocRowLen(doc, y) == IF y < Len(doc.rows) THEN Len(doc.rows[y + 1]) ELSE 0

\* rows with the rows `with` in place of row y (0-based)
SpliceRows(rows, y, with) ==
    SubSeq(rows, 1, y) \o with \o SubSeq(rows, y + 2, Len(rows))

\* Document::insert: a newline splits row at.y at column at.x, a character
\* inside a row is inserted before column at.x (appended when at.x is past
\* the end), and past the last row a new row is appended; the document is
\* dirty afterwards.
DocInsert(doc, at, c) ==
    LET rows == doc.rows
        inside == at.y < Len(rows)
        text == rows[at.y + 1]
        x == IF at.x < Len(text) THEN at.x ELSE Len(text)
        left == SubSeq(text, 1, x)
        right == SubSeq(text, x + 1, Len(text))
        after == IF c = "\n"
                 THEN IF inside THEN SpliceRows(rows, at.y, <<left, right>>)
                      ELSE Append(rows, <<>>)
                 ELSE IF inside THEN SpliceRows(rows, at.y, <<left \o <<c>> \o right>>)
                      ELSE Append(rows, <<c>>)
    IN  [doc EXCEPT !.rows = after, !.dirty = TRUE]

\* Document::delete: at the end of a row that is not the last, the next row
\* is merged into it; elsewhere the character at column at.x is removed;
\* nothing at the end of the document.  The document is dirty after any
\* effective change.
DocDelete(doc, at) ==
    LET rows == doc.rows
        text == rows[at.y + 1]
        after == IF at.y >= Len(rows) THEN rows
                 ELSE IF at.x = Len(text) /\ at.y + 1 < Len(rows)
                 THEN SubSeq(rows, 1, at.y) \o <<text \o rows[at.y + 2]>>
                          \o SubSeq(rows, at.y + 3, Len(rows))
                 ELSE IF at.x < Len(text)
                 THEN SpliceRows(rows, at.y,
                          <<SubSeq(text, 1, at.x) \o SubSeq(text, at.x + 2, Len(text))>>)
                 ELSE rows
    IN  [doc EXCEPT !.rows = after, !.dirty = @ \/ after # rows]

\* Row::find on the text of a row: the first occurrence of query in
\* [at, len) for Forward, the last one in [0, at) for Backward; <<>> for
\* none, for an empty query and for at past the end.
TextFind(text, query, at, direction) ==
    LET lo == IF direction = "Forward" THEN at ELSE 0
        hi == IF direction = "Forward" THEN Len(text) ELSE at
        hits == {i \in lo..(hi - Len(query)) : SubSeq(text, i + 1, i + Len(query)) = query}
    IN  IF at > Len(text) \/ query = <<>> \/ hits = {} THEN <<>>
        ELSE IF direction = "Forward"
        THEN <<CHOOSE i \in hits : \A j \in hits : i <= j>>
        ELSE <<CHOOSE i \in hits : \A j \in hits : i >= j>>

\* Document::find: row by row from position at in the direction given,
\* without wrapping past either end; <<>> for none, <<position>>.
RECURSIVE DocFind(_, _, _, _)
DocFind(doc, query, at, direction) ==
    IF at.y >= Len(doc.rows) THEN <<>>
    ELSE LET found == TextFind(doc.rows[at.y + 1], query, at.x, direction)
         IN  IF found # <<>> THEN << [x |-> found[1], y |-> at.y] >>
             ELSE IF direction = "Forward"
             THEN DocFind(doc, query, [x |-> 0, y |-> at.y + 1], direction)
             ELSE IF at.y = 0 THEN <<>>
             ELSE DocFind(doc, query,
                          [x |-> DocRowLen(doc, at.y - 1), y |-> at.y - 1], direction)

\* ----------------------------------------------------------- CommandState
\* CommandState::new
NewCommandState ==
    [buffer |-> <<>>, operator_pending |-> FALSE, current_operator |-> <<>>,
     count |-> <<>>, start_position |-> <<>>]

\* CommandState::clear that forgets to reset the count.
ClearKeepsCount(cs) ==
    [cs EXCEPT !.buffer = <<>>, !.operator_pending = FALSE,
               !.current_operator = <<>>, !.start_position = <<>>]

\* CommandState::clear
Clear(cs) ==
    [cs EXCEPT !.buffer = <<>>, !.operator_pending = FALSE,
               !.current_operator = <<>>, !.count = <<>>,
               !.start_position = <<>>]

\* CommandState::is_empty
IsEmpty(cs) == cs.buffer = <<>> /\ cs.current_operator = <<>> /\ cs.count = <<>>

\* CommandState::is_operator_pending
IsOperatorPending(cs) == cs.operator_pending

\* CommandState::set_operator_pending
SetOperatorPending(cs, op) ==
    [cs EXCEPT !.operator_pending = TRUE, !.current_operator = <<op>>]

\* CommandState::get_operator
GetOperator(cs) == cs.current_operator

\* char::is_ascii_digit and char::to_digit(10)
DigitOf ==
    [c \in {"0", "1", "2", "3", "4", "5", "6", "7", "8", "9"} |->
        CASE c = "0" -> 0 [] c = "1" -> 1 [] c = "2" -> 2 [] c = "3" -> 3
          [] c = "4" -> 4 [] c = "5" -> 5 [] c = "6" -> 6 [] c = "7" -> 7
          [] c = "8" -> 8 [] c = "9" -> 9]

IsAsciiDigit(c) == c \in DOMAIN DigitOf

\* CommandState::parse_count for a digit c.  `count * 10 + digit` is usize
\* arithmetic: when the result does not fit, a build with overflow checks
\* panics and a build without them wraps.  overflow tells which happened.
ParseCount(cs, c) ==
    IF c = "0" /\ cs.count = <<>>
    THEN [state |-> [cs EXCEPT !.count = << <<0>> >>], overflow |-> FALSE]
    ELSE LET digit == DigitOf[c]
             exact == TimesTenPlus(IF cs.count = <<>> THEN <<0>> ELSE cs.count[1], digit)
         IN  [state |-> [cs EXCEPT !.count = <<WrapUsize(exact)>>],
              overflow |-> ~DigitsLeq(exact, UsizeMax)]

\* CommandState::get_count that never reads the pending count.
GetCountOne(cs) == <<1>>

\* CommandState::get_count
GetCount(cs) == IF cs.count = <<>> THEN <<1>> ELSE cs.count[1]

\* CommandState::has_count
HasCount(cs) == cs.count # <<>>

\* ---------------------------------------------------------- TerminalEditor
\* const QUIT_TIMES
QUIT_TIMES == 3

\* A TerminalEditor is a record of the fields of the struct, the terminal
\* reduced to its size.  A Position is [x, y]; Option values are <<>> for
\* None and <<v>> for Some(v).
\* Position::default
Origin == [x |-> 0, y |-> 0]

\* StatusMessage::from: the fixed text, the number formatted into it (<<>>
\* when there is none) and the text typed at a prompt.
Message(text) == [text |-> text, n |-> <<>>, typed |-> <<>>]

MessageWith(text, n) == [text |-> text, n |-> n, typed |-> <<>>]

PromptMessage(prompt, result) == [text |-> prompt, n |-> <<>>, typed |-> result]

\* TerminalEditor::default for a document and what Document::open made of
\* the file named on the command line.
DefaultEditor(size, document, initial_status) ==
    [should_quit |-> FALSE,
     terminal |-> size,
     document |-> document,
     cursor_position |-> Origin,
     offset |-> Origin,
     status_message |-> Message(initial_status),
     quit_times |-> QUIT_TIMES,
     highlighted_word |-> <<>>,
     mode |-> "Normal",
     command_state |-> NewCommandState,
     selection_start |-> <<>>]

\* move_cursor that moves down without looking at the number of rows.
MoveCursorUnchecked(ed, key) ==
    IF key \in {"Down", "PageDown"}
    THEN [ed EXCEPT !.cursor_position.y = @ + 1]
    ELSE ed

\* TerminalEditor::default for the command line args (<<>> without a file
\* name, <<name>> with one) and the result opened of Document::open (<<>>
\* for an error, <<document>>).
StartEditor(size, args, opened) ==
    IF args = <<>> THEN DefaultEditor(size, EmptyDocument, "NORMAL MODE")
    ELSE IF opened = <<>>
    THEN DefaultEditor(size, EmptyDocument, "ERR: Could not open file: ")
    ELSE DefaultEditor(size, opened[1], "NORMAL MODE")

\* TerminalEditor::move_cursor
MoveCursor(ed, key) ==
    LET terminal_height == ed.terminal.height
        x == ed.cursor_position.x
        y == ed.cursor_position.y
        height == DocLen(ed.document)
        width == DocRowLen(ed.document, y)
        moved ==
            CASE key = "Up" -> [x |-> x, y |-> IF y > 0 THEN y - 1 ELSE 0]
              [] key = "Down" -> [x |-> x, y |-> IF y < height THEN y + 1 ELSE y]
              [] key = "Left" ->
                    IF x > 0 THEN [x |-> x - 1, y |-> y]
                    ELSE IF y > 0 THEN [x |-> DocRowLen(ed.document, y - 1), y |-> y - 1]
                    ELSE [x |-> x, y |-> y]
              [] key = "Right" ->
                    IF x < width THEN [x |-> x + 1, y |-> y]
                    ELSE IF y < height THEN [x |-> 0, y |-> y + 1]
                    ELSE [x |-> x, y |-> y]
              [] key = "PageUp" ->
                    [x |-> x, y |-> IF y > terminal_height THEN y - terminal_height ELSE 0]
              [] key = "PageDown" ->
                    [x |-> x, y |-> IF y + terminal_height < height
                                    THEN y + terminal_height ELSE height]
              [] key = "Home" -> [x |-> 0, y |-> y]
              [] key = "End" -> [x |-> width, y |-> y]
              [] OTHER -> [x |-> x, y |-> y]
        width2 == DocRowLen(ed.document, moved.y)
    IN  [ed EXCEPT !.cursor_position =
            [x |-> IF moved.x > width2 THEN width2 ELSE moved.x, y |-> moved.y]]

\* `for _ in 0..count { self.move_cursor(key) }`
RECURSIVE MoveCursorTimes(_, _, _)
MoveCursorTimes(ed, key, count) ==
    IF count = 0 THEN ed ELSE MoveCursorTimes(MoveCursor(ed, key), key, count - 1)

\* `for _ in 0..count { self.document.delete(&self.cursor_position) }`
RECURSIVE DeleteTimes(_, _, _)
DeleteTimes(doc, at, count) ==
    IF count = 0 THEN doc ELSE DeleteTimes(DocDelete(doc, at), at, count - 1)

\* Rounds after which a loop of move_cursor or of document.delete has
\* nothing left to change in the document doc: more rounds than it has
\* rows and characters.
RECURSIVE TotalLen(_)
TotalLen(rows) == IF rows = <<>> THEN 0 ELSE Len(Head(rows)) + 1 + TotalLen(Tail(rows))

Rounds(doc, count) == SmallValue(count, TotalLen(doc.rows) + 1)

\* y.saturating_sub(h).saturating_add(1)
SatSubAdd1(y, h) == (IF y > h THEN y - h ELSE 0) + 1

\* scroll that puts the cursor one line below the window when it scrolls
\* down.
ScrollOneShort(ed) ==
    LET y == ed.cursor_position.y
        height == ed.terminal.height
    IN  IF y >= ed.offset.y + height
        THEN [ed EXCEPT !.offset.y = IF y > height THEN y - height ELSE 0]
        ELSE ed

\* TerminalEditor::scroll
Scroll(ed) ==
    LET x == ed.cursor_position.x
        y == ed.cursor_position.y
        width == ed.terminal.width
        height == ed.terminal.height
        offset == ed.offset
    IN  [ed EXCEPT !.offset =
            [y |-> IF y < offset.y THEN y
                   ELSE IF y >= offset.y + height THEN SatSubAdd1(y, height)
                   ELSE offset.y,
             x |-> IF x < offset.x THEN x
                   ELSE IF x >= offset.x + width THEN SatSubAdd1(x, width)
                   ELSE offset.x]]

\* enter_insert_mode that forgets to clear the CommandState.
EnterInsertModeKeepsCommand(ed) ==
    [ed EXCEPT !.mode = "Insert",
               !.selection_start = <<>>,
               !.status_message = Message("-- INSERT MODE --")]

\* enter_insert_mode that forgets to drop the selection start.
EnterInsertModeKeepsAnchor(ed) ==
    [ed EXCEPT !.mode = "Insert",
               !.command_state = Clear(@),
               !.status_message = Message("-- INSERT MODE --")]

\* TerminalEditor::enter_insert_mode
EnterInsertMode(ed) ==
    [ed EXCEPT !.mode = "Insert",
               !.command_state = Clear(@),
               !.selection_start = <<>>,
               !.status_message = Message("-- INSERT MODE --")]

\* enter_normal_mode that forgets to drop the selection start.
EnterNormalModeKeepsAnchor(ed) ==
    [ed EXCEPT !.mode = "Normal",
               !.command_state = Clear(@),
               !.status_message = Message("-- NORMAL MODE --")]

\* TerminalEditor::enter_normal_mode
EnterNormalMode(ed) ==
    [ed EXCEPT !.mode = "Normal",
               !.command_state = Clear(@),
               !.selection_start = <<>>,
               !.status_message = Message("-- NORMAL MODE --")]

\* TerminalEditor::enter_visual_mode
EnterVisualMode(ed) ==
    [ed EXCEPT !.mode = "Visual",
               !.selection_start = <<ed.cursor_position>>,
               !.command_state = Clear(@),
               !.status_message = Message("-- VISUAL MODE --")]

\* TerminalEditor::enter_visual_line_mode
EnterVisualLineMode(ed) ==
    [ed EXCEPT !.mode = "VisualLine",
               !.selection_start = << [x |-> 0, y |-> ed.cursor_position.y] >>,
               !.command_state = Clear(@),
               !.status_message = Message("-- VISUAL LINE MODE --")]

\* TerminalEditor::enter_command_mode
EnterCommandMode(ed) ==
    [ed EXCEPT !.mode = "Command",
               !.command_state = Clear(@),
               !.status_message = Message("-- COMMAND MODE --")]

\* The end of process_keypress (terminal_editor.rs 664-669).
EndOfKeypress(ed) ==
    LET scrolled == Scroll(ed)
    IN  IF scrolled.quit_times < QUIT_TIMES
        THEN [scrolled EXCEPT !.quit_times = QUIT_TIMES,
                              !.status_message = Message("")]
        ELSE scrolled

\* ------------------------------------------------------------------- keys
\* termion::event::Key: a Key::Char(c) is the one-character string c, every
\* other key is named in SpecialKeys ("F1" stands for the keys that no
\* match arm names).
SpecialKeys ==
    {"Left", "Right", "Up", "Down", "PageUp", "PageDown", "Home", "End",
     "Esc", "Backspace", "Delete", "Ctrl-q", "Ctrl-s", "Ctrl-f", "Ctrl-o", "F1"}

IsChar(key) == key \notin SpecialKeys

\* char::is_control, on the characters the model types
IsControl(c) == c \in {"\n", "\t"}

\* What the world answers during one key press: whether Document::save
\* succeeds, what Document::open returns (<<>> for an error), and whether
\* the build checks arithmetic overflow.
Answers(documents) ==
    [save_ok : BOOLEAN, opened : {<<>>} \cup {<<d>> : d \in documents},
     overflow_checks : BOOLEAN]

\* ----------------------------------------------------------------- frames
\* A frame is a call that waits in Terminal::read_key below the main loop:
\* handle_g_command ("g"), prompt ("prompt", with the use the prompt is put
\* to, the text typed so far and the locals of search_document), or the
\* process_keypress that Insert-mode Ctrl-O calls ("ctrl_o").
Frame(at, purpose, result, old_position, direction) ==
    [at |-> at, purpose |-> purpose, result |-> result,
     old_position |-> old_position, direction |-> direction]

PromptText(purpose) ==
    CASE purpose \in {"search", "search_clear"} ->
             "Search (ESC to cancel, down/j/n=next, up/k/p=prev): "
      [] purpose = "save_as" -> "Save as: "
      [] purpose = "open_confirm" -> "Open new file anyway? (y/n): "
      [] purpose = "open_file" -> "Open file: "

\* The outcome of running a handler up to its return or to its next
\* read_key: the editor, the frame it waits in (<<>> when it returned) and
\* its fate, "ok", "panic" or "die" (an Err that run() hands to die).
Done(ed) == [editor |-> ed, frames |-> <<>>, fate |-> "ok"]

Blocked(ed, frame) == [editor |-> ed, frames |-> <<frame>>, fate |-> "ok"]

Failed(ed, fate) == [editor |-> ed, frames |-> <<>>, fate |-> fate]

\* open_document that leaves an empty document behind when the open fails.
OpenDocumentPartial(ed, answer) ==
    IF answer.opened = <<>>
    THEN [editor |-> [ed EXCEPT !.document = EmptyDocument,
                                !.status_message = Message("Error opening file: ")],
          ok |-> FALSE]
    ELSE [editor |-> [ed EXCEPT !.document = answer.opened[1]], ok |-> TRUE]

\* TerminalEditor::open_document: the editor afterwards and whether
\* Document::open returned a document.
OpenDocument(ed, answer) ==
    IF answer.opened = <<>>
    THEN [editor |-> [ed EXCEPT !.status_message = Message("Error opening file: ")],
          ok |-> FALSE]
    ELSE [editor |-> [ed EXCEPT !.document = answer.opened[1]], ok |-> TRUE]

\* The first round of the loop of prompt up to its read_key.
StartPrompt(ed, purpose, old_position) ==
    Blocked([ed EXCEPT !.status_message = PromptMessage(PromptText(purpose), <<>>)],
            Frame("prompt", purpose, <<>>, old_position, "Forward"))

\* The part of save_document after the file name is known.
SaveNow(ed, answer) ==
    IF answer.save_ok
    THEN Done([ed EXCEPT !.document.dirty = FALSE,
                         !.status_message = Message("File saved successfully.")])
    ELSE Failed([ed EXCEPT !.status_message = Message("Error writing file!")], "die")

\* TerminalEditor::save_document
SaveDocument(ed, answer) ==
    IF ed.document.file_name = <<>>
    THEN StartPrompt(ed, "save_as", ed.cursor_position)
    ELSE SaveNow(ed, answer)

\* The closure that search_document hands to prompt.
SearchCallback(ed, frame, key, query) ==
    LET direction == IF key \in {"n", "j", "d", "l"} THEN "Forward"
                     ELSE IF key \in {"p", "k", "a", "h"} THEN "Backward"
                     ELSE IF query # <<>> THEN "Forward"
                     ELSE frame.direction
        moved == key \in {"n", "j", "d", "l", "p", "k", "a", "h"} \/ query # <<>>
        found == DocFind(ed.document, query, ed.cursor_position, direction)
        last == IF DocLen(ed.document) > 0 THEN DocLen(ed.document) - 1 ELSE 0
        position == IF direction = "Forward" THEN Origin
                    ELSE [x |-> DocRowLen(ed.document, last), y |-> last]
        wrapped == DocFind(ed.document, query, position, direction)
        searched ==
            IF found # <<>>
            THEN Scroll([ed EXCEPT !.cursor_position = found[1]])
            ELSE IF moved
            THEN IF wrapped # <<>>
                 THEN [Scroll([ed EXCEPT !.cursor_position = wrapped[1]])
                          EXCEPT !.status_message = Message("Search wrapped around")]
                 ELSE [ed EXCEPT !.status_message = Message("No matches found")]
            ELSE [ed EXCEPT !.status_message = Message("No matches found")]
    IN  [editor |-> IF query # <<>>
                    THEN [searched EXCEPT !.highlighted_word = <<query>>]
                    ELSE ed,
         direction |-> direction]

\* The rest of the handler that called prompt, once prompt has returned
\* value (<<>> for None): search_document and its caller, save_document, or
\* the Ctrl-O arm.
AfterPrompt(ed, frame, value, answer) ==
    CASE frame.purpose \in {"search", "search_clear"} ->
             LET restored == IF value = <<>>
                             THEN Scroll([ed EXCEPT !.cursor_position = frame.old_position])
                             ELSE ed
                 searched == [restored EXCEPT !.highlighted_word = <<>>]
             IN  Done(EndOfKeypress(
                     IF frame.purpose = "search_clear"
                     THEN [searched EXCEPT !.command_state = Clear(@)]
                     ELSE searched))
      [] frame.purpose = "save_as" ->
             IF value = <<>>
             THEN Done([ed EXCEPT !.status_message = Message("Save aborted.")])
             ELSE SaveNow([ed EXCEPT !.document.file_name = value], answer)
      [] frame.purpose = "open_confirm" ->
             IF value = <<>> \/ value[1] \notin {<<"y">>, <<"Y">>}
             THEN Done([ed EXCEPT !.status_message = Message("Open aborted.")])
             ELSE StartPrompt(ed, "open_file", frame.old_position)
      [] frame.purpose = "open_file" ->
             LET tried == OpenDocument(ed, answer)
                 opened ==
                     IF value = <<>> THEN ed
                     ELSE IF ~tried.ok
                     THEN [tried.editor EXCEPT
                              !.status_message = Message("Error opening file: ")]
                     ELSE [tried.editor EXCEPT
                              !.status_message = Message("Opened file: "),
                              !.cursor_position = Origin,
                              !.offset = Origin]
             IN  Done(EndOfKeypress([opened EXCEPT !.command_state = Clear(@)]))

\* One round of the loop of prompt, from the key read to the next read_key
\* or to the return of prompt and of its callers.
PromptKey(ed, frame, key, answer) ==
    LET result == frame.result
        typed == IF key = "Backspace" THEN SubSeq(result, 1, Len(result) - 1)
                 ELSE IF key = "Esc" THEN <<>>
                 ELSE IF IsChar(key) /\ ~IsControl(key) THEN Append(result, key)
                 ELSE result
        break == key \in {"\n", "Esc"}
        c == IF IsChar(key) THEN key
             ELSE CASE key = "Up" -> "k" [] key = "Down" -> "j"
                    [] key = "Left" -> "h" [] key = "Right" -> "l" [] OTHER -> ""
        called == IF c # "" /\ frame.purpose \in {"search", "search_clear"}
                  THEN SearchCallback(ed, frame, c, typed)
                  ELSE [editor |-> ed, direction |-> frame.direction]
    IN  IF break
        THEN AfterPrompt([ed EXCEPT !.status_message = Message("")], frame,
                         IF typed = <<>> THEN <<>> ELSE <<typed>>, answer)
        ELSE Blocked([called.editor EXCEPT !.status_message =
                          PromptMessage(PromptText(frame.purpose), typed)],
                     [frame EXCEPT !.result = typed, !.direction = called.direction])

\* search_document that takes the origin for the position to return to.
SearchDocumentFromOrigin(ed, purpose) == StartPrompt(ed, purpose, Origin)

\* TerminalEditor::search_document up to the first read_key of its prompt
SearchDocument(ed, purpose) == StartPrompt(ed, purpose, ed.cursor_position)

\* TerminalEditor::handle_g_command from the key it reads on, and the end
\* of the process_keypress that called it.
GKey(ed, key) ==
    LET told(text) == [ed EXCEPT !.status_message = Message(text),
                                 !.command_state = Clear(@)]
    IN  Done(EndOfKeypress(
            CASE key = "g" -> [ed EXCEPT !.cursor_position = Origin,
                                         !.command_state = Clear(@)]
              [] key = "h" -> told("Previous heading (same level) - Not implemented")
              [] key = "j" -> told("Next heading - Not implemented")
              [] key = "k" -> told("Previous heading - Not implemented")
              [] key = "l" -> told("Next heading (same level) - Not implemented")
              [] key = "p" -> told("Parent heading - Not implemented")
              [] key = "c" -> told("Child heading - Not implemented")
              [] key = "t" -> told("Next TODO item - Not implemented")
              [] key = "b" -> told("Next code block - Not implemented")
              [] OTHER -> [ed EXCEPT !.command_state = Clear(@)]))

\* ------------------------------------------------------- process_keypress
\* The Normal arm of process_keypress for a key that is not a count digit
\* (terminal_editor.rs 364-563), and the end of process_keypress after it.
NormalKey(ed, key) ==
    LET cs == ed.command_state
        cleared(e) == [e EXCEPT !.command_state = Clear(@)]
        count == GetCount(cs)
        y == ed.cursor_position.y
        at_end == MoveCursor(ed, "End")
        at_home == MoveCursor(ed, "Home")
        operator(op, done) ==
            IF IsOperatorPending(cs) /\ GetOperator(cs) = <<op>>
            THEN cleared([ed EXCEPT !.status_message = MessageWith(done, count)])
            ELSE [ed EXCEPT !.command_state = SetOperatorPending(@, op),
                            !.status_message = Message(op)]
        told(text) == cleared([ed EXCEPT !.status_message = MessageWith(text, count)])
        line == LET n == SmallValue(count, DocLen(ed.document) + 1)
                IN  IF n > 0 THEN n - 1 ELSE 0
        last == IF DocLen(ed.document) > 0 THEN DocLen(ed.document) - 1 ELSE 0
    IN  CASE key = "i" -> Done(EndOfKeypress(EnterInsertMode(ed)))
          [] key = "I" -> Done(EndOfKeypress(EnterInsertMode(at_home)))
          [] key = "a" ->
                Done(EndOfKeypress(EnterInsertMode(
                    IF y < DocLen(ed.document) /\ DocRowLen(ed.document, y) # 0
                           /\ ed.cursor_position.x < DocRowLen(ed.document, y)
                    THEN MoveCursor(ed, "Right") ELSE ed)))
          [] key = "A" -> Done(EndOfKeypress(EnterInsertMode(at_end)))
          [] key = "o" ->
                Done(EndOfKeypress(EnterInsertMode(MoveCursor(
                    [at_end EXCEPT !.document =
                         DocInsert(@, at_end.cursor_position, "\n")], "Down"))))
          [] key = "O" ->
                Done(EndOfKeypress(EnterInsertMode(MoveCursor(
                    [at_home EXCEPT !.document =
                         DocInsert(@, at_home.cursor_position, "\n")], "Up"))))
          [] key = "x" ->
                Done(EndOfKeypress(cleared(
                    [ed EXCEPT !.document =
                         DeleteTimes(@, ed.cursor_position, Rounds(@, count))])))
          [] key = "d" -> Done(EndOfKeypress(operator("d", "Delete lines")))
          [] key = "y" -> Done(EndOfKeypress(operator("y", "Yank lines")))
          [] key = "g" ->
                Blocked([ed EXCEPT !.status_message = Message("g")],
                        Frame("g", "", <<>>, ed.cursor_position, "Forward"))
          [] key = "v" -> Done(EndOfKeypress(EnterVisualMode(ed)))
          [] key = "V" -> Done(EndOfKeypress(EnterVisualLineMode(ed)))
          [] key = ":" -> Done(EndOfKeypress(EnterCommandMode(ed)))
          [] key = "/" -> SearchDocument(ed, "search")
          [] key \in {"h", "Left"} -> Done(EndOfKeypress(cleared(MoveCursor(ed, "Left"))))
          [] key \in {"j", "Down"} ->
                Done(EndOfKeypress(cleared(
                    MoveCursorTimes(ed, "Down", Rounds(ed.document, count)))))
          [] key \in {"k", "Up"} ->
                Done(EndOfKeypress(cleared(
                    MoveCursorTimes(ed, "Up", Rounds(ed.document, count)))))
          [] key \in {"l", "Right"} -> Done(EndOfKeypress(cleared(MoveCursor(ed, "Right"))))
          [] key = "w" -> Done(EndOfKeypress(told("Move forward words")))
          [] key = "b" -> Done(EndOfKeypress(told("Move backward words")))
          [] key = "e" -> Done(EndOfKeypress(told("Move to end of words")))
          [] key = "0" -> Done(EndOfKeypress(cleared(at_home)))
          [] key = "$" -> Done(EndOfKeypress(cleared(at_end)))
          [] key = "G" ->
                Done(EndOfKeypress(cleared(
                    IF HasCount(cs)
                    THEN IF line < DocLen(ed.document)
                         THEN [ed EXCEPT !.cursor_position = [x |-> 0, y |-> line]]
                         ELSE ed
                    ELSE [ed EXCEPT !.cursor_position = [x |-> 0, y |-> last]])))
          [] key \in {"PageUp", "PageDown", "End", "Home"} ->
                Done(EndOfKeypress(cleared(MoveCursor(ed, key))))
          [] key = "Ctrl-f" -> SearchDocument(ed, "search_clear")
          [] key = "Ctrl-o" ->
                IF ed.document.dirty
                THEN StartPrompt(ed, "open_confirm", ed.cursor_position)
                ELSE StartPrompt(ed, "open_file", ed.cursor_position)
          [] OTHER ->
                Done(EndOfKeypress(IF IsOperatorPending(cs) THEN cleared(ed) ELSE ed))

\* The Insert arm with a Backspace that deletes before it moves left.
InsertKeyDeletesFirst(ed, key) ==
    IF key = "Backspace" /\ (ed.cursor_position.x > 0 \/ ed.cursor_position.y > 0)
    THEN Done(EndOfKeypress(MoveCursor(
             [ed EXCEPT !.document = DocDelete(@, ed.cursor_position)], "Left")))
    ELSE IF IsChar(key)
    THEN Done(EndOfKeypress(MoveCursor(
             [ed EXCEPT !.document = DocInsert(@, ed.cursor_position, key)],
             "Right")))
    ELSE Done(EndOfKeypress(MoveCursor(ed, key)))

\* The Insert arm with a Char that leaves the cursor where it was.
InsertKeyStays(ed, key) ==
    IF IsChar(key)
    THEN Done(EndOfKeypress(
             [ed EXCEPT !.document = DocInsert(@, ed.cursor_position, key)]))
    ELSE Done(EndOfKeypress(MoveCursor(ed, key)))

\* The Insert arm of process_keypress (terminal_editor.rs 565-591).
InsertKey(ed, key) ==
    LET at_left == MoveCursor(ed, "Left")
    IN  CASE key = "Esc" -> Done(EndOfKeypress(EnterNormalMode(ed)))
          [] key = "Ctrl-o" ->
                Blocked(EnterNormalMode(ed),
                        Frame("ctrl_o", "", <<>>, ed.cursor_position, "Forward"))
          [] IsChar(key) ->
                Done(EndOfKeypress(MoveCursor(
                    [ed EXCEPT !.document = DocInsert(@, ed.cursor_position, key)],
                    "Right")))
          [] key = "Delete" ->
                Done(EndOfKeypress(
                    [ed EXCEPT !.document = DocDelete(@, ed.cursor_position)]))
          [] key = "Backspace" ->
                Done(EndOfKeypress(
                    IF ed.cursor_position.x > 0 \/ ed.cursor_position.y > 0
                    THEN [at_left EXCEPT !.document = DocDelete(@, at_left.cursor_position)]
                    ELSE ed))
          [] key \in {"Up", "Down", "Left", "Right", "PageUp", "PageDown", "End", "Home"} ->
                Done(EndOfKeypress(MoveCursor(ed, key)))
          [] OTHER -> Done(EndOfKeypress(ed))

\* `h`, `j`, `k`, `l` as the arrow keys
ArrowOf(key) ==
    CASE key = "h" -> "Left" [] key = "j" -> "Down" [] key = "k" -> "Up"
      [] key = "l" -> "Right" [] OTHER -> key

\* The Visual arm with a `d` that deletes the character at the cursor.
VisualKeyDeletes(ed, key) ==
    Done(EndOfKeypress(
        CASE key \in {"Esc", "v"} -> EnterNormalMode(ed)
          [] key = "d" ->
                EnterNormalMode([ed EXCEPT
                    !.document = DocDelete(@, ed.cursor_position),
                    !.status_message = Message("Deleted selection")])
          [] OTHER -> ed))

\* The Visual arm of process_keypress (terminal_editor.rs 592-623).
VisualKey(ed, key) ==
    Done(EndOfKeypress(
        CASE key \in {"Esc", "v"} -> EnterNormalMode(ed)
          [] key = "V" -> EnterVisualLineMode(ed)
          [] key \in {"Up", "Down", "Left", "Right", "PageUp", "PageDown", "End",
                      "Home", "h", "j", "k", "l"} -> MoveCursor(ed, ArrowOf(key))
          [] key = "y" ->
                EnterNormalMode([ed EXCEPT !.status_message = Message("Yanked selection")])
          [] key = "d" ->
                EnterNormalMode([ed EXCEPT !.status_message = Message("Deleted selection")])
          [] OTHER -> ed))

\* The VisualLine arm of process_keypress (terminal_editor.rs 624-651).
VisualLineKey(ed, key) ==
    Done(EndOfKeypress(
        CASE key \in {"Esc", "V"} -> EnterNormalMode(ed)
          [] key = "v" -> EnterVisualMode(ed)
          [] key \in {"Up", "Down", "j", "k"} -> MoveCursor(ed, ArrowOf(key))
          [] key = "y" ->
                EnterNormalMode([ed EXCEPT !.status_message = Message("Yanked lines")])
          [] key = "d" ->
                EnterNormalMode([ed EXCEPT !.status_message = Message("Deleted lines")])
          [] OTHER -> ed))

\* The Command arm of process_keypress (terminal_editor.rs 652-661).
CommandKey(ed, key) ==
    Done(EndOfKeypress(
        IF key = "Esc" THEN EnterNormalMode(ed)
        ELSE EnterNormalMode(
                 [ed EXCEPT !.status_message =
                      Message("Command mode not fully implemented")])))

\* The count digit branch of the Normal arm (terminal_editor.rs 357-362):
\* parse_count and return, or the panic of an overflow check.
CountKey(ed, key, answer) ==
    LET parsed == ParseCount(ed.command_state, key)
    IN  IF parsed.overflow /\ answer.overflow_checks THEN Failed(ed, "panic")
        ELSE Done([ed EXCEPT !.command_state = parsed.state])

\* process_keypress from the key it has read to its return or to the next
\* read_key inside it.
ProcessKey(ed, key, answer) ==
    IF key = "Ctrl-q"
    THEN IF ed.quit_times > 0 /\ ed.document.dirty
         THEN Done([ed EXCEPT
                  !.status_message =
                      MessageWith("WARNING! File has unsaved changes. Press Ctrl-Q more times to quit.",
                                  <<ed.quit_times>>),
                  !.quit_times = @ - 1])
         ELSE Done([ed EXCEPT !.should_quit = TRUE])
    ELSE IF key = "Ctrl-s" THEN SaveDocument(ed, answer)
    ELSE CASE ed.mode = "Normal" ->
                  IF IsChar(key) /\ IsAsciiDigit(key)
                         /\ (key # "0" \/ HasCount(ed.command_state))
                  THEN CountKey(ed, key, answer)
                  ELSE NormalKey(ed, key)
           [] ed.mode = "Insert" -> InsertKey(ed, key)
           [] ed.mode = "Visual" -> VisualKey(ed, key)
           [] ed.mode = "VisualLine" -> VisualLineKey(ed, key)
           [] ed.mode = "Command" -> CommandKey(ed, key)

\* The key goes to the call that waits for it: the innermost frame, or a
\* new process_keypress when the frame is the one of Insert-mode Ctrl-O or
\* there is none.
Dispatch(ed, waiting, key, answer) ==
    IF waiting = <<>> \/ waiting[Len(waiting)].at = "ctrl_o"
    THEN ProcessKey(ed, key, answer)
    ELSE IF waiting[Len(waiting)].at = "g" THEN GKey(ed, key)
    ELSE PromptKey(ed, waiting[Len(waiting)], key, answer)

\* The frames that still wait below the call the key went to.
Below(waiting) ==
    IF waiting = <<>> \/ waiting[Len(waiting)].at = "ctrl_o" THEN waiting
    ELSE SubSeq(waiting, 1, Len(waiting) - 1)

\* The whole effect of one key: the call it went to runs to its return or
\* to its next read_key, and when the process_keypress called by
\* Insert-mode Ctrl-O has returned, the Ctrl-O arm goes on
\* (enter_insert_mode and the end of the outer process_keypress).
KeyEffect(ed, waiting, key, answer) ==
    LET ran == Dispatch(ed, waiting, key, answer)
        below == Below(waiting)
    IN  IF ran.fate # "ok" THEN [ran EXCEPT !.frames = <<>>]
        ELSE IF ran.frames # <<>> THEN [ran EXCEPT !.frames = below \o ran.frames]
        ELSE IF below # <<>>
        THEN Done(EndOfKeypress(EnterInsertMode(ran.editor)))
        ELSE ran

\* ------------------------------------------------------------ state machine
\* HighlightingOptions of a ruleset without keywords.
NoOpts == [primary_keywords |-> {}]

NoCall ==
    [op |-> "idle", at |-> 0, c |-> "a", query |-> <<>>, dir |-> "Forward",
     other |-> RowFrom(<<>>), word |-> <<>>, carry |-> FALSE, ft |-> "code",
     opts |-> NoOpts, end |-> 0]

NoRet ==
    [found |-> <<>>, right |-> RowFrom(<<>>), carry |-> FALSE, first |-> FALSE,
     rendered |-> <<>>]

\* No session key has been read: the record of the last key is empty.
NoKey == [key |-> "", before |-> <<>>, fate |-> "ok"]

\* No thread highlights: the cell of the shared highlighter is empty and
\* its constructor has not run.
NoThreads ==
    [pc |-> <<>>, rows |-> <<>>, cell |-> "empty", built |-> 0, holder |-> 0,
     poisoned |-> FALSE]

\* The session of an editor started without a file, before its first key.
InitSession ==
    /\ threads = NoThreads
    /\ editor = DefaultEditor([width |-> TermWidth, height |-> TermHeight],
                              EmptyDocument, "NORMAL MODE")
    /\ frames = <<>>
    /\ keyed = NoKey

\* A row as Row::default() builds it.
InitRow ==
    /\ InitSession
    /\ row = RowFrom(<<>>)
    /\ pre = row
    /\ call = NoCall
    /\ ret = NoRet
    /\ panicked = FALSE

Indices == 0..(MaxLen + 1)

\* No call is in progress: the caller has taken the last result.
Idle == ~panicked /\ call.op = "idle"

\* The caller takes the result of the call; the row is ready for the next one.
Return ==
    /\ UNCHANGED session
    /\ ~panicked
    /\ call.op # "idle"
    /\ call' = NoCall
    /\ ret' = NoRet
    /\ pre' = row
    /\ UNCHANGED <<row, panicked>>

Insert(at, c) ==
    /\ UNCHANGED session
    /\ Idle
    /\ Len(row.string) < MaxLen
    /\ pre' = row
    /\ row' = RowInsert(row, at, c)
    /\ call' = [NoCall EXCEPT !.op = "insert", !.at = at, !.c = c]
    /\ ret' = NoRet
    /\ UNCHANGED panicked

Delete(at) ==
    /\ UNCHANGED session
    /\ Idle
    /\ pre' = row
    /\ row' = RowDelete(row, at)
    /\ call' = [NoCall EXCEPT !.op = "delete", !.at = at]
    /\ ret' = NoRet
    /\ UNCHANGED panicked

AppendRow(s) ==
    /\ UNCHANGED session
    /\ Idle
    /\ Len(row.string) + Len(s) <= MaxLen
    /\ pre' = row
    /\ row' = RowAppend(row, RowFrom(s))
    /\ call' = [NoCall EXCEPT !.op = "append", !.other = RowFrom(s)]
    /\ ret' = NoRet
    /\ UNCHANGED panicked

Split(at) ==
    /\ UNCHANGED session
    /\ Idle
    /\ pre' = row
    /\ call' = [NoCall EXCEPT !.op = "split", !.at = at]
    /\ \E done \in {RowSplit(row, at)} :
           /\ row' = done.left
           /\ ret' = [NoRet EXCEPT !.right = done.right]
    /\ UNCHANGED panicked

\* right = r.split(at); r.append(&right)
SplitAppend(at) ==
    /\ UNCHANGED session
    /\ Idle
    /\ at <= row.len
    /\ pre' = row
    /\ call' = [NoCall EXCEPT !.op = "split_append", !.at = at]
    /\ \E done \in {RowSplit(row, at)} :
           /\ row' = RowAppend(done.left, done.right)
           /\ ret' = [NoRet EXCEPT !.right = done.right]
    /\ UNCHANGED panicked

\* r.delete(i); r.insert(i, c) for the single character c that is grapheme i
DeleteInsert(at) ==
    /\ UNCHANGED session
    /\ Idle
    /\ at < row.len
    /\ \E g \in {Graphemes(row.string)} :
           /\ at < Len(g)
           /\ Len(g[at + 1]) = 1
           /\ row' = RowInsert(RowDelete(row, at), at, g[at + 1][1])
           /\ call' = [NoCall EXCEPT !.op = "delete_insert", !.at = at,
                                     !.c = g[at + 1][1]]
    /\ pre' = row
    /\ ret' = NoRet
    /\ UNCHANGED panicked

Find(query, at, direction) ==
    /\ UNCHANGED session
    /\ Idle
    /\ pre' = row
    /\ row' = row
    /\ call' = [NoCall EXCEPT !.op = "find", !.query = query, !.at = at,
                              !.dir = direction]
    /\ ret' = [NoRet EXCEPT !.found = RowFind(row, query, at, direction)]
    /\ UNCHANGED panicked

NextRow ==
    \/ \E at \in Indices, c \in Chars : Insert(at, c)
    \/ \E at \in Indices : Delete(at)
    \/ \E s \in SeqsUpTo(1) : AppendRow(s)
    \/ \E at \in Indices : Split(at)
    \/ \E at \in Indices : SplitAppend(at)
    \/ \E at \in Indices : DeleteInsert(at)
    \/ \E q \in Queries, at \in Indices, d \in {"Forward", "Backward"} : Find(q, at, d)
    \/ Return

SpecRow == InitRow /\ [][NextRow]_vars

\* ------------------------------------------------- highlighting state machine
\* A row as Document::open builds it from a line of the file.
InitHl ==
    /\ InitSession
    /\ row \in {RowFrom(s) : s \in SeqsUpTo(HlMaxLen)}
    /\ pre = row
    /\ call = NoCall
    /\ ret = NoRet
    /\ panicked = FALSE

FileTypes == {"code", "org"}

\* Option<String>: None, or Some of a word of at most MaxWord code points.
Words == {<<>>} \cup {<<w>> : w \in SeqsUpTo(MaxWord)}

Highlight(word, start_with_comment, file_type) ==
    /\ UNCHANGED session
    /\ Idle
    /\ pre' = row
    /\ call' = [NoCall EXCEPT !.op = "highlight", !.word = word,
                              !.carry = start_with_comment, !.ft = file_type]
    /\ \E done \in {RowHighlight(row, word, start_with_comment, file_type)} :
           /\ row' = done.row
           /\ ret' = [NoRet EXCEPT !.carry = done.ret]
           /\ panicked' = done.panic

\* Two calls in succession with the same arguments: pre is the row after the
\* first call, ret.first the flag it returned; a call that panics is the last.
HighlightTwice(word, start_with_comment, file_type) ==
    /\ UNCHANGED session
    /\ Idle
    /\ call' = [NoCall EXCEPT !.op = "highlight_twice", !.word = word,
                              !.carry = start_with_comment, !.ft = file_type]
    /\ \E once \in {RowHighlight(row, word, start_with_comment, file_type)} :
           /\ pre' = once.row
           /\ IF once.panic
              THEN /\ row' = once.row
                   /\ ret' = NoRet
                   /\ panicked' = TRUE
              ELSE \E twice \in {RowHighlight(once.row, word, start_with_comment,
                                              file_type)} :
                       /\ row' = twice.row
                       /\ ret' = [NoRet EXCEPT !.first = once.ret,
                                               !.carry = twice.ret]
                       /\ panicked' = twice.panic

HlInsert(at, c) ==
    /\ Len(row.string) < HlMaxLen
    /\ Insert(at, c)

NextHl ==
    \/ \E w \in Words, carry \in BOOLEAN, ft \in FileTypes : Highlight(w, carry, ft)
    \/ \E w \in Words, carry \in BOOLEAN, ft \in FileTypes : HighlightTwice(w, carry, ft)
    \/ \E at \in 0..HlMaxLen, c \in Chars : HlInsert(at, c)
    \/ \E at \in 0..HlMaxLen : Delete(at)
    \/ Return

SpecHl == InitHl /\ [][NextHl]_vars

\* ------------------------------------------------ carry-in state machine
\* Document::highlight hands a row the carry flag of the row above it; the
\* rows are lines of the file of up to CarryMaxLen code points, long enough
\* for text before and after a closing marker.
InitCarry ==
    /\ InitSession
    /\ row \in {RowFrom(s) : s \in SeqsUpTo(CarryMaxLen)}
    /\ pre = row
    /\ call = NoCall
    /\ ret = NoRet
    /\ panicked = FALSE

NextCarry ==
    \/ \E carry \in BOOLEAN : Highlight(<<>>, carry, "code")
    \/ Return

SpecCarry == InitCarry /\ [][NextCarry]_vars

\* ------------------------------------------------- headline state machine
\* The lines of an org file that are headlines with a TODO or DONE keyword:
\* stars, whitespace, the keyword followed by a space, and a title.
RECURSIVE SeqsOver(_, _)
SeqsOver(alphabet, n) ==
    IF n = 0 THEN {<<>>}
    ELSE LET shorter == SeqsOver(alphabet, n - 1)
         IN  shorter \cup {Append(s, c) : s \in shorter, c \in alphabet}

OrgKeywords == {<<"T", "O", "D", "O", " ">>, <<"D", "O", "N", "E", " ">>}

OrgHeadlines ==
    {stars \o gap \o keyword \o title :
        stars \in SeqsOver({"*"}, OrgMaxStars) \ {<<>>},
        gap \in SeqsOver({" ", "\t"}, OrgMaxGap) \ {<<>>},
        keyword \in OrgKeywords,
        title \in SeqsOver({"w", " ", "m"}, OrgMaxTitle)}

InitOrg ==
    /\ InitSession
    /\ row \in {RowFrom(s) : s \in OrgHeadlines}
    /\ pre = row
    /\ call = NoCall
    /\ ret = NoRet
    /\ panicked = FALSE

NextOrg ==
    \/ \E carry \in BOOLEAN : Highlight(<<>>, carry, "org")
    \/ Return

SpecOrg == InitOrg /\ [][NextOrg]_vars

\* -------------------------------------------------- keyword state machine
\* The words a ruleset may list as primary keywords.
KeywordWords == {<<"a">>, <<"a", "a">>}

\* HighlightingOptions: the rulesets over these words.
Rulesets == {[primary_keywords |-> ws] : ws \in SUBSET KeywordWords}

InitKeyword ==
    /\ InitSession
    /\ row \in {RowFrom(s) : s \in SeqsUpTo(KwMaxLen)}
    /\ pre = row
    /\ call = NoCall
    /\ ret = NoRet
    /\ panicked = FALSE

\* Row::highlight under a code file type with the ruleset opts, no search
\* word and carry-in false.  The body of Row::highlight never reads opts, so
\* the row afterwards is RowHighlight's whatever opts holds.
HighlightOpts(opts) ==
    /\ UNCHANGED session
    /\ Idle
    /\ pre' = row
    /\ call' = [NoCall EXCEPT !.op = "highlight", !.opts = opts]
    /\ \E done \in {RowHighlight(row, <<>>, FALSE, "code")} :
           /\ row' = done.row
           /\ ret' = [NoRet EXCEPT !.carry = done.ret]
           /\ panicked' = done.panic

NextKeyword ==
    \/ \E opts \in Rulesets : HighlightOpts(opts)
    \/ Return

SpecKeyword == InitKeyword /\ [][NextKeyword]_vars

\* ------------------------------------------------ rendering state machine
\* Rows with a tab, a combining mark and a regional indicator in them; they
\* are rendered as loaded and after highlight has classified them.
RenderChars == {"a", "\t", "m", "R"}

InitRender ==
    /\ InitSession
    /\ row \in {RowFrom(s) : s \in SeqsOver(RenderChars, RenderMaxLen)}
    /\ pre = row
    /\ call = NoCall
    /\ ret = NoRet
    /\ panicked = FALSE

Render(start, end) ==
    /\ UNCHANGED session
    /\ Idle
    /\ pre' = row
    /\ row' = row
    /\ call' = [NoCall EXCEPT !.op = "render", !.at = start, !.end = end]
    /\ ret' = [NoRet EXCEPT !.rendered = RowRender(row, start, end)]
    /\ UNCHANGED panicked

NextRender ==
    \/ \E start \in 0..(RenderMaxLen + 1), end \in 0..(RenderMaxLen + 1) :
           Render(start, end)
    \/ \E w \in {<<>>, << <<"a">> >>}, carry \in BOOLEAN : Highlight(w, carry, "code")
    \/ Return

SpecRender == InitRender /\ [][NextRender]_vars

\* ------------------------------------------------- session state machine
\* The editor and the calls waiting for a key stay inside the bounds of the
\* state machine: document size, count digits, prompt text.
Within(ed, waiting, digits) ==
    /\ DocLen(ed.document) <= MaxRows
    /\ \A y \in 1..Len(ed.document.rows) : Len(ed.document.rows[y]) <= MaxCols
    /\ ed.command_state.count # <<>> => Len(ed.command_state.count[1]) <= digits
    /\ \A k \in 1..Len(waiting) : Len(waiting[k].result) <= MaxPrompt

\* The innermost waiting call reads its key without a refresh_screen before
\* it: handle_g_command and the process_keypress of Insert-mode Ctrl-O.
ReadsUnrefreshed ==
    frames # <<>> /\ frames[Len(frames)].at \in {"g", "ctrl_o"}

\* Terminal::read_key returns key to the call that waits for it, and that
\* call runs until it returns or reads again.
KeyPress(key, answer, digits) ==
    /\ ~panicked
    /\ ~editor.should_quit
    /\ keyed = NoKey \/ ReadsUnrefreshed
    /\ \E ran \in {KeyEffect(editor, frames, key, answer)} :
           /\ ran.fate = "ok" => Within(ran.editor, ran.frames, digits)
           /\ editor' = ran.editor
           /\ frames' = ran.frames
           /\ panicked' = (ran.fate # "ok")
           /\ keyed' = [key |-> key,
                        before |-> << [editor |-> editor, frames |-> frames] >>,
                        fate |-> ran.fate]
    /\ UNCHANGED rowvars
    /\ UNCHANGED threads

\* refresh_screen in the loop of run and in the loop of prompt: the screen
\* shows the effect of the last key, and the next key can be read.
RefreshScreen ==
    /\ ~panicked
    /\ keyed # NoKey
    /\ ~ReadsUnrefreshed
    /\ keyed' = NoKey
    /\ UNCHANGED <<editor, frames, panicked, threads>>
    /\ UNCHANGED rowvars

\* The row part of the state while a session runs.
InitNoRow ==
    /\ threads = NoThreads
    /\ row = RowFrom(<<>>)
    /\ pre = row
    /\ call = NoCall
    /\ ret = NoRet
    /\ panicked = FALSE

\* A key read by the process_keypress that run() calls.
MainKey(key, answer, digits) ==
    /\ frames = <<>>
    /\ KeyPress(key, answer, digits)

\* A key read by a call that waits below it: a prompt, handle_g_command or
\* the process_keypress of Insert-mode Ctrl-O.
InnerKey(key, answer, digits) ==
    /\ frames # <<>>
    /\ KeyPress(key, answer, digits)

\* The document a session starts with: two rows of text, read from file f.
SessionDocument ==
    [rows |-> << <<"a", "a">>, <<"a">> >>, dirty |-> FALSE,
     file_name |-> << <<"f">> >>]

\* The keys pressed in Normal mode: count digits, the operators, motions,
\* a mode switch, Esc, the search trigger, save, quit and a key that no arm
\* names.
NormalKeys ==
    {"0", "2", "d", "y", "h", "j", "k", "l", ":", "Esc", "/", "Ctrl-s",
     "Ctrl-q", "F1"}

\* The keys pressed at a prompt: a character, Enter and Esc.
PromptKeys == {"a", "\n", "Esc"}

InitNormal ==
    /\ InitNoRow
    /\ editor = DefaultEditor([width |-> TermWidth, height |-> TermHeight],
                              SessionDocument, "NORMAL MODE")
    /\ frames = <<>>
    /\ keyed = NoKey

NextNormal ==
    \/ \E key \in NormalKeys, answer \in Answers({}) : MainKey(key, answer, MaxDigits)
    \/ \E key \in PromptKeys, answer \in Answers({}) : InnerKey(key, answer, MaxDigits)
    \/ RefreshScreen

SpecNormal == InitNormal /\ [][NextNormal]_vars

\* --------------------------------------------------- count state machine
\* The digits typed into a count, and the operator key.
CountDigits == {"0", "1", "9"}

\* The keys pressed while a count is typed: any digit (and the operator
\* key before the count) for the first ShortDigits digits, nines after.
CountKeysAt(ed) ==
    IF ~HasCount(ed.command_state) THEN CountDigits \cup {"d"}
    ELSE IF Len(ed.command_state.count[1]) < ShortDigits THEN CountDigits
    ELSE {"9"}

\* The pending count, if any, is still written with the digits typed (a
\* count that has wrapped around is not, and is followed no further).
TypedOnly(ed) ==
    \A k \in 1..Len(GetCount(ed.command_state)) :
        GetCount(ed.command_state)[k] \in {DigitOf[c] : c \in CountDigits}

InitCount == InitNormal

NextCount ==
    \/ \E key \in CountKeysAt(editor), answer \in Answers({}) :
           TypedOnly(editor) /\ MainKey(key, answer, LongDigits)
    \/ RefreshScreen

SpecCount == InitCount /\ [][NextCount]_vars

\* --------------------------------------------------- mode state machine
\* The document of an edited session stays inside EditRows x EditCols.
EditShape(ed) ==
    /\ DocLen(ed.document) <= EditRows
    /\ \A y \in 1..Len(ed.document.rows) : Len(ed.document.rows[y]) <= EditCols

\* The document a session of mode changes starts with: one row, file f.
ModesDocument ==
    [rows |-> << <<"a">> >>, dirty |-> FALSE, file_name |-> << <<"f">> >>]

\* The keys pressed in each mode: in Normal mode a count digit, an
\* operator, the insert keys, the visual keys, the command key and two
\* motions; elsewhere Esc, the keys that change mode, a character, a
\* motion, and an edit.
ModeKeysAt(ed) ==
    CASE ed.mode = "Normal" ->
             {"2", "d", "i", "I", "a", "A", "o", "O", "v", "V", ":", "l", "j"}
      [] ed.mode = "Insert" -> {"Esc", "Ctrl-o", "a", "Backspace", "Left"}
      [] ed.mode = "Visual" -> {"Esc", "v", "V", "l", "j", "y"}
      [] ed.mode = "VisualLine" -> {"Esc", "v", "V", "j", "d"}
      [] ed.mode = "Command" -> {"Esc", "a"}

InitModes ==
    /\ InitNoRow
    /\ editor = DefaultEditor([width |-> TermWidth, height |-> TermHeight],
                              ModesDocument, "NORMAL MODE")
    /\ frames = <<>>
    /\ keyed = NoKey

NextModes ==
    \/ \E key \in ModeKeysAt(editor), answer \in Answers({}) :
           MainKey(key, answer, MaxDigits) /\ EditShape(editor')
    \/ \E key \in ModeKeysAt(editor), answer \in Answers({}) :
           InnerKey(key, answer, MaxDigits) /\ EditShape(editor')
    \/ RefreshScreen

SpecModes == InitModes /\ [][NextModes]_vars

\* --------------------------------------------------- edit state machine
\* The keys pressed while a document is edited: in Normal mode a count
\* digit, the motions, `x`, `G`, `g`, the keys that open a line or start an
\* insertion, the visual key and the search trigger; in Insert mode
\* characters, Enter, the deletions and the arrows; in Visual mode motions.
EditKeysAt(ed) ==
    CASE ed.mode = "Normal" ->
             {"2", "x", "G", "g", "o", "O", "i", "a", "h", "j", "k", "l", "$",
              "PageDown", "PageUp", "v", "/"}
      [] ed.mode = "Insert" ->
             {"Esc", "a", "\n", "Backspace", "Delete", "Left", "Right", "Up", "Down"}
      [] ed.mode = "Visual" -> {"Esc", "h", "j", "k", "l"}
      [] OTHER -> {"Esc"}

\* The keys pressed while a call waits below the main loop: the second key
\* of a g command, or a key of the search prompt.
InnerKeysAt(waiting) ==
    IF waiting # <<>> /\ waiting[Len(waiting)].at = "g" THEN {"g", "j"}
    ELSE PromptKeys

InitEdit == InitModes

NextEdit ==
    \/ \E key \in EditKeysAt(editor), answer \in Answers({}) :
           MainKey(key, answer, MaxDigits) /\ EditShape(editor')
    \/ \E key \in InnerKeysAt(frames), answer \in Answers({}) :
           InnerKey(key, answer, MaxDigits) /\ EditShape(editor')
    \/ RefreshScreen

SpecEdit == InitEdit /\ [][NextEdit]_vars

\* --------------------------------------------------- quit state machine
\* The keys pressed around Ctrl-Q: in Normal mode a count digit, a
\* deletion, a motion, a key no arm names, save and the insert key; in
\* Insert mode a character and Esc; Ctrl-Q in both.
QuitKeysAt(ed) ==
    IF ed.mode = "Normal" THEN {"Ctrl-q", "2", "x", "j", "F1", "Ctrl-s", "i"}
    ELSE {"Ctrl-q", "Esc", "a"}

InitQuit == InitModes

NextQuit ==
    \/ \E key \in QuitKeysAt(editor), answer \in Answers({}) :
           MainKey(key, answer, MaxDigits) /\ EditShape(editor')
    \/ RefreshScreen

SpecQuit == InitQuit /\ [][NextQuit]_vars

\* --------------------------------------------------- save state machine
\* The keys pressed around Ctrl-S: in Normal mode a deletion and the insert
\* key, in Insert mode a character and Esc, Ctrl-S in both.
SaveKeysAt(ed) ==
    IF ed.mode = "Normal" THEN {"Ctrl-s", "x", "i"} ELSE {"Ctrl-s", "a", "Esc"}

\* The session starts without a file name on the command line, or with
\* the name of a file that opens.
InitSave ==
    /\ InitNoRow
    /\ \E args \in {<<>>, << <<"f">> >>} :
           editor = StartEditor([width |-> TermWidth, height |-> TermHeight],
                                args, <<ModesDocument>>)
    /\ frames = <<>>
    /\ keyed = NoKey

NextSave ==
    \/ \E key \in SaveKeysAt(editor), answer \in Answers({}) :
           MainKey(key, answer, MaxDigits) /\ EditShape(editor')
    \/ \E key \in PromptKeys, answer \in Answers({}) :
           InnerKey(key, answer, MaxDigits)
    \/ RefreshScreen

SpecSave == InitSave /\ [][NextSave]_vars

\* --------------------------------------------------- open state machine
\* The keys pressed around Ctrl-O in Normal mode: a deletion, two motions
\* and Ctrl-O; at its prompts a character, the answer `y`, Enter and Esc.
OpenKeysAt(waiting) ==
    IF waiting = <<>> THEN {"Ctrl-o", "x", "j", "l"}
    ELSE PromptKeys \cup {"y"}

\* A file of as many rows as the window has: the cursor can go below the
\* window, to the line after the last row.
TallDocument ==
    [rows |-> [k \in 1..TermHeight |-> <<"a">>], dirty |-> FALSE,
     file_name |-> << <<"f">> >>]

\* The session starts without a file name on the command line, or with
\* the name of a file that opens or fails to open.
InitOpen ==
    /\ InitNoRow
    /\ \E args \in {<<>>, << <<"f">> >>}, opened \in {<<>>, <<TallDocument>>} :
           editor = StartEditor([width |-> TermWidth, height |-> TermHeight],
                                args, opened)
    /\ frames = <<>>
    /\ keyed = NoKey

NextOpen ==
    \/ \E key \in OpenKeysAt(frames), answer \in Answers({TallDocument}) :
           MainKey(key, answer, MaxDigits) /\ EditShape(editor')
    \/ \E key \in OpenKeysAt(frames), answer \in Answers({TallDocument}) :
           InnerKey(key, answer, MaxDigits)
    \/ RefreshScreen

SpecOpen == InitOpen /\ [][NextOpen]_vars

\* ---------------------------------------------------- key state machine
\* The keys pressed in each mode where every kind of key is tried: in
\* Normal mode the edits `x`, `o`, `O`, the keys that change mode, save,
\* open and a key no arm names; in Insert mode a character, Enter, the
\* deletions, save and Esc; in the other modes Esc, `d` and `x`.
AllKeysAt(ed) ==
    CASE ed.mode = "Normal" ->
             {"x", "o", "O", "a", "v", "V", ":", "Ctrl-s", "Ctrl-o", "F1"}
      [] ed.mode = "Insert" ->
             {"Esc", "a", "\n", "Backspace", "Delete", "Ctrl-s"}
      [] ed.mode = "Visual" -> {"Esc", "d", "x"}
      [] ed.mode = "VisualLine" -> {"Esc", "d", "x"}
      [] ed.mode = "Command" -> {"Esc", "x"}

InitKeys == InitModes

NextKeys ==
    \/ \E key \in AllKeysAt(editor), answer \in Answers({ModesDocument}) :
           MainKey(key, answer, MaxDigits) /\ EditShape(editor')
    \/ \E key \in PromptKeys \cup {"y"}, answer \in Answers({ModesDocument}) :
           InnerKey(key, answer, MaxDigits)
    \/ RefreshScreen

SpecKeys == InitKeys /\ [][NextKeys]_vars

\* ------------------------------------------------- typing state machine
\* The document that is typed into stays inside TypeRows x TypeCols.
TypeShape(ed) ==
    /\ DocLen(ed.document) <= TypeRows
    /\ \A y \in 1..Len(ed.document.rows) : Len(ed.document.rows[y]) <= TypeCols

\* The keys pressed while text is typed: in Normal mode the insert key and
\* a motion to the line after the last row; in Insert mode a character
\* that the document does not start with, Enter, Backspace and the arrows.
TypeKeysAt(ed) ==
    IF ed.mode = "Normal" THEN {"i", "j"}
    ELSE {"b", "\n", "Backspace", "Left", "Right", "Up", "Down"}

InitType == InitModes

NextType ==
    \/ \E key \in TypeKeysAt(editor), answer \in Answers({}) :
           MainKey(key, answer, MaxDigits) /\ TypeShape(editor')
    \/ RefreshScreen

SpecType == InitType /\ [][NextType]_vars

\* ------------------------------------------- shared highlighter threads
\* Several threads call Row::highlight on rows of a markup file, each on a
\* row of its own, without a search word.  `threads` holds the place of
\* each thread in highlight_org (pc), its row, the OnceLock of the shared
\* highlighter (cell: "empty", "running" while the closure of get_or_init
\* runs, "set"), how often OrgHighlighter::new has run (built), and the
\* Mutex: the thread that holds its guard (0 for none) and its poison flag.
\* A Mutex is poisoned when a thread panics while it holds the guard; the
\* guard is held over highlight_line alone (row.rs 396-397), which has no
\* operation that panics, so no step sets the flag.
ThreadIds == 1..MaxThreads

\* The texts of the rows the threads highlight.
ThreadTexts == {<<"*", " ", "a">>, <<"a", ":", ":">>}

\* A Mutex whose lock never waits.
MutexAlwaysFree(th) == TRUE

\* Mutex::lock goes on when no thread holds the guard.
MutexFree(th) == th.holder = 0

InitThreads ==
    /\ row = RowFrom(<<>>)
    /\ pre = row
    /\ call = NoCall
    /\ ret = NoRet
    /\ panicked = FALSE
    /\ editor = DefaultEditor([width |-> TermWidth, height |-> TermHeight],
                              EmptyDocument, "NORMAL MODE")
    /\ frames = <<>>
    /\ keyed = NoKey
    /\ \E texts \in [ThreadIds -> ThreadTexts] :
           threads = [NoThreads EXCEPT
                         !.pc = [t \in ThreadIds |-> "get_or_init"],
                         !.rows = [t \in ThreadIds |-> RowFrom(texts[t])]]

\* Thread t goes on to place `to`, leaving the shared state as th.
GoesTo(t, to, th) ==
    /\ threads' = [th EXCEPT !.pc[t] = to]
    /\ UNCHANGED <<rowvars, panicked, editor, frames, keyed>>

\* OnceLock::get_or_init: with the cell set the thread goes on with the
\* highlighter; with the cell empty it starts the closure; while another
\* thread runs the closure it waits.
GetOrInit(t) ==
    /\ threads.pc[t] = "get_or_init"
    /\ threads.cell # "running"
    /\ IF threads.cell = "set"
       THEN GoesTo(t, "lock", threads)
       ELSE GoesTo(t, "new", [threads EXCEPT !.cell = "running"])

\* The closure of get_or_init: Mutex::new(OrgHighlighter::new()).
New(t) ==
    /\ threads.pc[t] = "new"
    /\ GoesTo(t, "lock", [threads EXCEPT !.cell = "set", !.built = @ + 1])

\* highlighter.lock(): waits for the guard; the result is Err when the
\* Mutex is poisoned.
Lock(t) ==
    /\ threads.pc[t] = "lock"
    /\ MutexFree(threads)
    /\ GoesTo(t, "if_let", [threads EXCEPT !.holder = t])

\* The `if let Ok(h)` statement: highlight_line under the guard, or the
\* fallback of the else branch.
IfLet(t) ==
    /\ threads.pc[t] = "if_let"
    /\ GoesTo(t, "unlock",
              [threads EXCEPT !.rows[t].highlighting =
                   IF threads.poisoned
                   THEN Repeat("None", ByteLen(threads.rows[t].string))
                   ELSE OrgHighlightLine(threads.rows[t].string)])

\* The guard is dropped at the end of the `if let` statement.
Unlock(t) ==
    /\ threads.pc[t] = "unlock"
    /\ GoesTo(t, "highlight_match", [threads EXCEPT !.holder = 0])

\* highlight_match for no search word, and the end of highlight_org.
Finish(t) ==
    /\ threads.pc[t] = "highlight_match"
    /\ GoesTo(t, "done",
              [threads EXCEPT !.rows[t] =
                   [HighlightMatch(threads.rows[t], <<>>).row EXCEPT
                        !.is_highlighted = TRUE]])

ThreadStep(t) ==
    \/ GetOrInit(t)
    \/ New(t)
    \/ Lock(t)
    \/ IfLet(t)
    \/ Unlock(t)
    \/ Finish(t)

NextThreads == \E t \in ThreadIds : ThreadStep(t)

\* Every thread that can take a step is scheduled in the end.
SpecThreads ==
    InitThreads /\ [][NextThreads]_vars /\ \A t \in ThreadIds : WF_vars(ThreadStep(t))

\* ---------------------------------------------- open-line state machine
\* The keys pressed around `o` and `O`: the two keys, the vertical motions
\* and `x` in Normal mode, Esc in Insert mode.
LineKeysAt(ed) ==
    IF ed.mode = "Normal" THEN {"o", "O", "j", "k", "x"} ELSE {"Esc"}

\* The document grows to at most MaxRows rows as lines are opened.
InitLines == InitModes

NextLines ==
    \/ \E key \in LineKeysAt(editor), answer \in Answers({}) :
           MainKey(key, answer, MaxDigits)
    \/ RefreshScreen

SpecLines == InitLines /\ [][NextLines]_vars

\* ------------------------------------------------ window state machine
\* The sizes of the text area of the terminal: the smallest one, and
\* TermWidth x TermHeight.
ViewSizes ==
    {[width |-> 1, height |-> 1], [width |-> TermWidth, height |-> TermHeight]}

\* The keys that move the cursor or change what it can stand on: in Normal
\* mode a count digit, motions, `G`, `g`, `x`, `o`, the insert key and the
\* search trigger; in Insert mode a character, Enter, Backspace, two arrows
\* and Esc.
ViewKeysAt(ed) ==
    IF ed.mode = "Normal"
    THEN {"2", "j", "k", "l", "G", "g", "x", "o", "i", "/", "PageDown"}
    ELSE {"Esc", "a", "\n", "Backspace", "Left", "Down"}

InitView ==
    /\ InitNoRow
    /\ \E size \in ViewSizes : editor = DefaultEditor(size, ModesDocument, "NORMAL MODE")
    /\ frames = <<>>
    /\ keyed = NoKey

NextView ==
    \/ \E key \in ViewKeysAt(editor), answer \in Answers({}) :
           MainKey(key, answer, MaxDigits) /\ EditShape(editor')
    \/ \E key \in InnerKeysAt(frames), answer \in Answers({}) :
           InnerKey(key, answer, MaxDigits)
    \/ RefreshScreen

SpecView == InitView /\ [][NextView]_vars

\* ------------------------------------------------ Ctrl-O state machine
\* The keys pressed around Insert-mode Ctrl-O: `i` in Normal mode; a
\* character, Esc and Ctrl-O in Insert mode; after Ctrl-O the keys that
\* change mode, a count digit, an operator, an edit, keys that read
\* further keys, save, quit and a key no arm names.
CtrlOKeysAt(ed, waiting) ==
    IF waiting = <<>>
    THEN IF ed.mode = "Normal" THEN {"i"} ELSE {"Ctrl-o", "a", "Esc"}
    ELSE IF waiting[Len(waiting)].at = "ctrl_o"
    THEN {"v", "V", ":", "Esc", "i", "o", "2", "d", "x", "g", "/", "Ctrl-s",
          "Ctrl-q", "F1"}
    ELSE InnerKeysAt(waiting)

InitCtrlO == InitModes

NextCtrlO ==
    \/ \E key \in CtrlOKeysAt(editor, frames), answer \in Answers({}) :
           MainKey(key, answer, MaxDigits) /\ EditShape(editor')
    \/ \E key \in CtrlOKeysAt(editor, frames), answer \in Answers({}) :
           InnerKey(key, answer, MaxDigits) /\ EditShape(editor')
    \/ RefreshScreen

SpecCtrlO == InitCtrlO /\ [][NextCtrlO]_vars

\* ------------------------------------------------ search state machine
\* The keys pressed around a search: in Normal mode the two search
\* triggers, two motions and a count digit; at the prompt a character of
\* the text, the arrows that step to the next and the previous match,
\* Backspace, Enter and Esc.
SearchKeysAt(waiting) ==
    IF waiting = <<>> THEN {"/", "Ctrl-f", "l", "j", "2"}
    ELSE {"a", "Down", "Up", "Backspace", "\n", "Esc"}

InitSearch == InitNormal

NextSearch ==
    \/ \E key \in SearchKeysAt(frames), answer \in Answers({}) :
           MainKey(key, answer, MaxDigits)
    \/ \E key \in SearchKeysAt(frames), answer \in Answers({}) :
           InnerKey(key, answer, MaxDigits)
    \/ RefreshScreen

SpecSearch == InitSearch /\ [][NextSearch]_vars

\* ------------------------------------------------ go-to state machine
\* The documents a session of line jumps starts with: none, and two rows.
GotoDocuments == {EmptyDocument, SessionDocument}

\* The keys pressed around `G`: in Normal mode two count digits, an
\* operator, `G`, two motions and the insert key; in Insert mode Enter,
\* which adds a row, and Esc.
GotoKeysAt(ed) ==
    IF ed.mode = "Normal" THEN {"1", "3", "d", "G", "j", "l", "i"}
    ELSE {"\n", "Esc"}

InitGoto ==
    /\ InitNoRow
    /\ \E document \in GotoDocuments :
           editor = DefaultEditor([width |-> TermWidth, height |-> TermHeight],
                                  document, "NORMAL MODE")
    /\ frames = <<>>
    /\ keyed = NoKey

NextGoto ==
    \/ \E key \in GotoKeysAt(editor), answer \in Answers({}) :
           MainKey(key, answer, MaxDigits)
    \/ RefreshScreen

SpecGoto == InitGoto /\ [][NextGoto]_vars

\* ===================================================================== claims
\* ---------------------------------------------------------------------- C1
\* C1: after any sequence of insert / delete / split / append, the cached
\* len of the row equals the number of grapheme clusters of its text.
C1_LenIsGraphemeCount == row.len = GraphemeCount(row.string)

\* ---------------------------------------------------------------------- C2
\* C2: r.split(at) followed by r.append(&right), for at in 0..=len, leaves
\* the text and the length of r as they were before the split.
C2_SplitAppendRestores ==
    call.op = "split_append" => row.string = pre.string /\ row.len = pre.len

\* ---------------------------------------------------------------------- C3
\* The cached length of the row before the call was its grapheme count.
LenWasRight == pre.len = GraphemeCount(pre.string)

\* C3: for i < len whose grapheme is the single character c, delete(i)
\* followed by insert(i, c) restores the text and the length of the row
\* (stated for rows whose cached length is right, so that a failure owes
\* nothing to a length that C1 already shows wrong).
C3_DeleteInsertRestores ==
    (call.op = "delete_insert" /\ LenWasRight) =>
        row.string = pre.string /\ row.len = pre.len

\* ---------------------------------------------------------------------- C4
\* The code point offset at which grapheme i (0-based) of s starts.
ClusterOffset(s, i) == Len(Flatten(Take(Graphemes(s), i)))

Min(a, b) == IF a < b THEN a ELSE b

\* The grapheme indices i of the window [lo, hi) of s at which query occurs,
\* starting at the boundary of cluster i and ending inside the window.
Occurrences(s, query, lo, hi) ==
    LET n == GraphemeCount(s)
        top == Min(hi, n)
    IN  {i \in lo..(top - 1) :
            /\ IsPrefixAt(s, query, ClusterOffset(s, i))
            /\ ClusterOffset(s, i) + Len(query) <= ClusterOffset(s, top)}

\* C4: find with a non-empty query and at <= len returns the first occurrence
\* met in scan direction that starts at a cluster boundary inside the window
\* (Forward [at, len), Backward [0, at)), and None exactly when there is none
\* (stated for rows whose cached length is right).
C4_FindFirstOccurrence ==
    (call.op = "find" /\ call.query # <<>> /\ call.at <= pre.len /\ LenWasRight) =>
        LET occ == IF call.dir = "Forward"
                   THEN Occurrences(pre.string, call.query, call.at, pre.len)
                   ELSE Occurrences(pre.string, call.query, 0, call.at)
        IN  /\ ret.found = <<>> <=> occ = {}
            /\ ret.found # <<>> =>
                   /\ ret.found[1] \in occ
                   /\ \A j \in occ : IF call.dir = "Forward" THEN ret.found[1] <= j
                                     ELSE ret.found[1] >= j

\* ---------------------------------------------------------------------- C5
\* C5: out-of-range indices are never an error: find returns None for an
\* empty query or for at > len, insert with at >= len appends the character,
\* delete with at >= len changes neither text nor length, and no call fails.
C5_OutOfRangeNoError ==
    /\ ~panicked
    /\ (call.op = "find" /\ (call.query = <<>> \/ call.at > pre.len)) =>
           ret.found = <<>>
    /\ (call.op = "insert" /\ call.at >= pre.len) =>
           row.string = Append(pre.string, call.c)
    /\ (call.op = "delete" /\ call.at >= pre.len) =>
           row.string = pre.string /\ row.len = pre.len

\* An insert past the end of a non-empty row has appended its character.
C5_Witness ==
    /\ call.op = "insert"
    /\ call.at > pre.len
    /\ pre.string # <<>>
    /\ row.string = Append(pre.string, call.c)

\* ---------------------------------------------------------------------- C6
\* The category rendered for grapheme i (0-based): None where the
\* highlighting vector does not reach.
CategoryAt(r, i) ==
    IF i < Len(r.highlighting) THEN r.highlighting[i + 1] ELSE "None"

\* The graphemes covered by the left-to-right, non-overlapping occurrences
\* of word in s, searched from grapheme index from on.
RECURSIVE Covered(_, _, _)
Covered(s, word, from) ==
    LET occ == Occurrences(s, word, from, GraphemeCount(s))
    IN  IF occ = {} THEN {}
        ELSE LET i == CHOOSE x \in occ : \A y \in occ : x <= y
                 next == i + GraphemeCount(word)
             IN  (i..(next - 1)) \cup Covered(s, word, next)

\* C6: with a non-empty search word highlight completes, and afterwards
\* exactly the graphemes covered by the occurrences of the word are Match.
C6_SearchOverlay ==
    (call.op = "highlight" /\ call.word # <<>> /\ call.word # << <<>> >>) =>
        /\ ~panicked
        /\ \A i \in 0..(GraphemeCount(row.string) - 1) :
               CategoryAt(row, i) = "Match" <=> i \in Covered(row.string, call.word[1], 0)

\* ---------------------------------------------------------------------- C7
\* C7: in every reachable row state the highlighting vector is no longer
\* than the text has grapheme clusters.
C7_HighlightingWithinText ==
    ~panicked => Len(row.highlighting) <= GraphemeCount(row.string)

\* ---------------------------------------------------------------------- C8
\* C8: two calls of highlight in succession with the same arguments return
\* the same carry flag and leave the same highlighting vector.
C8_HighlightIdempotent ==
    (call.op = "highlight_twice" /\ ~panicked) =>
        /\ ret.carry = ret.first
        /\ row.highlighting = pre.highlighting

\* ---------------------------------------------------------------------- C9
\* Whether the text ends inside a block comment, scanning from code point k
\* with the comment open or not.
RECURSIVE EndsInComment(_, _, _)
EndsInComment(s, k, open) ==
    IF k > Len(s) THEN open
    ELSE IF open /\ IsPrefixAt(s, <<"*", "/">>, k - 1) THEN EndsInComment(s, k + 2, FALSE)
    ELSE IF ~open /\ IsPrefixAt(s, <<"/", "*">>, k - 1) THEN EndsInComment(s, k + 2, TRUE)
    ELSE EndsInComment(s, k + 1, open)

EndsWithCloserText(s) ==
    Len(s) >= 2 /\ SubSeq(s, Len(s) - 1, Len(s)) = <<"*", "/">>

\* C9: highlight returns carry = true only when the row ends inside an
\* unterminated block comment, and never for a text that ends with `*/`.
C9_CarryOnlyWhenOpen ==
    (call.op = "highlight" /\ ~panicked /\ ret.carry) =>
        /\ EndsInComment(row.string, 1, call.carry)
        /\ ~EndsWithCloserText(row.string)

\* --------------------------------------------------------------------- C10
\* The text opens a block comment that it does not close.
OpensUnclosed(s) == EndsInComment(s, 1, FALSE)

\* C10: under a code ruleset a row that opens a block comment and does not
\* close it returns carry = true, also when the carry-in flag is false.
C10_OpenerCarries ==
    (call.op = "highlight" /\ call.ft = "code" /\ ~panicked
        /\ OpensUnclosed(row.string)) => ret.carry

\* --------------------------------------------------------------------- C11
\* The number of grapheme clusters of s that start before the end of the
\* first closing marker, or all of them when s holds no closing marker.
CommentEnd(s) ==
    LET closers == {k \in 0..Len(s) : IsPrefixAt(s, <<"*", "/">>, k)}
        n == GraphemeCount(s)
    IN  IF closers = {} THEN n
        ELSE LET k == CHOOSE x \in closers : \A y \in closers : x <= y
             IN  Cardinality({i \in 0..(n - 1) : ClusterOffset(s, i) < k + 2})

\* A call of highlight on a code row that recomputes the classification with
\* carry-in true and no search word, and completes.
RecomputedWithCarry ==
    /\ call.op = "highlight"
    /\ call.ft = "code"
    /\ call.carry
    /\ call.word = <<>>
    /\ ~pre.is_highlighted
    /\ ~panicked

\* C11: when highlight recomputes a code row with carry-in true, exactly the
\* graphemes from column 0 through the end of the first closing marker (all
\* graphemes when there is none) are MultilineComment.
C11_CarryPaintsThroughCloser ==
    RecomputedWithCarry =>
        \A i \in 0..(GraphemeCount(row.string) - 1) :
            CategoryAt(row, i) = "MultilineComment" <=> i < CommentEnd(row.string)

\* --------------------------------------------------------------------- C12
\* C12: after an insert or a delete that changed the text, the row's
\* is_highlighted flag is false.
C12_EditInvalidates ==
    (call.op \in {"insert", "delete"} /\ row.string # pre.string) =>
        ~row.is_highlighted

\* --------------------------------------------------------------------- C13
\* The number of leading whitespace characters of s.
RECURSIVE LeadingWhitespace(_)
LeadingWhitespace(s) ==
    IF s # <<>> /\ IsWhitespace(Head(s)) THEN 1 + LeadingWhitespace(Tail(s)) ELSE 0

\* The category a headline gives grapheme i when its keyword starts at
\* grapheme first: the keyword's own category on its four graphemes,
\* Headline everywhere else.
HeadlineCategory(i, first, keyword) ==
    IF i >= first /\ i < first + 4
    THEN (IF keyword = "TODO" THEN "OrgTodo" ELSE "OrgDone")
    ELSE "OrgHeadline"

\* The keyword of a headline: stars, at least one whitespace character, then
\* `TODO ` or `DONE `; "" for any other line.
HeadlineKeyword(s) ==
    LET level == OrgLevel(s)
        remaining == SubSeq(s, level + 1, Len(s))
        gap == LeadingWhitespace(remaining)
        after == SubSeq(remaining, gap + 1, Len(remaining))
    IN  IF level >= 1 /\ gap >= 1 /\ StartsWith(after, <<"T", "O", "D", "O", " ">>)
        THEN "TODO"
        ELSE IF level >= 1 /\ gap >= 1 /\ StartsWith(after, <<"D", "O", "N", "E", " ">>)
        THEN "DONE"
        ELSE ""

\* C13: on a markup line of n >= 1 stars, whitespace and `TODO ` (`DONE `),
\* exactly the four graphemes of the keyword are TodoKeyword (DoneKeyword)
\* and every other grapheme, the stars and the whitespace before the keyword
\* included, is Headline.
C13_HeadlineKeyword ==
    (call.op = "highlight" /\ call.ft = "org" /\ call.word = <<>>
        /\ HeadlineKeyword(row.string) # "") =>
        LET level == OrgLevel(row.string)
            gap == LeadingWhitespace(SubSeq(row.string, level + 1, Len(row.string)))
        IN  \A i \in 0..(GraphemeCount(row.string) - 1) :
                CategoryAt(row, i) =
                    HeadlineCategory(i, level + gap, HeadlineKeyword(row.string))

\* --------------------------------------------------------------------- C14
\* The maximal run of non-separator characters of s around code point p
\* (1-based); empty when s[p] is a separator.
WordAround(s, p) ==
    LET isWord(k) == k >= 1 /\ k <= Len(s) /\ ~IsSeparator(s[k])
        lo == CHOOSE a \in 1..p : (\A k \in a..p : isWord(k)) /\ ~isWord(a - 1)
        hi == CHOOSE b \in p..Len(s) : (\A k \in p..b : isWord(k)) /\ ~isWord(b + 1)
    IN  IF isWord(p) THEN SubSeq(s, lo, hi) ELSE <<>>

\* Grapheme i of s lies in a whole-word occurrence of one of the keywords.
InKeyword(s, i, keywords) == WordAround(s, ClusterOffset(s, i) + 1) \in keywords

\* The text opens no line comment and no block comment.
NoComment(s) ==
    \A k \in 0..Len(s) :
        ~IsPrefixAt(s, <<"/", "/">>, k) /\ ~IsPrefixAt(s, <<"/", "*">>, k)

\* C14: under a code ruleset, on a row without comments, strings or numbers,
\* highlight classifies the graphemes of every whole-word occurrence of a
\* primary keyword as PrimaryKeyword and every other grapheme as None.
C14_PrimaryKeywords ==
    (call.op = "highlight" /\ call.ft = "code" /\ call.word = <<>>
        /\ ~call.carry /\ ~pre.is_highlighted /\ ~panicked
        /\ NoComment(row.string)) =>
        \A i \in 0..(GraphemeCount(row.string) - 1) :
            CategoryAt(row, i) =
                IF InKeyword(row.string, i, call.opts.primary_keywords)
                THEN "PrimaryKeywords" ELSE "None"

\* --------------------------------------------------------------------- C15
\* The pieces of grapheme g in full, every tab as one space.
Pieces(g) == [k \in 1..Len(g) |-> IF g[k] = "\t" THEN <<"char", " ">> ELSE <<"char", g[k]>>]

\* The graphemes i..last (0-based) of r in full, a colour piece before each
\* grapheme whose category differs from previous, the category of the
\* grapheme emitted before it.
RECURSIVE Styled(_, _, _, _)
Styled(r, i, last, previous) ==
    IF i > last THEN <<>>
    ELSE LET category == CategoryAt(r, i)
             colour == IF category # previous THEN << <<"color", category>> >> ELSE <<>>
         IN  colour \o Pieces(Graphemes(r.string)[i + 1])
                 \o Styled(r, i + 1, last, category)

\* C15: render(start, end) leaves the row as it was and returns the
\* graphemes min(start, e)..e-1, e = min(end, len), each in full and tabs as
\* one space, a colour sequence before exactly the graphemes whose category
\* differs from the one emitted before (None at first), then one reset.
C15_RenderSlice ==
    (call.op = "render" /\ LenWasRight) =>
        LET e == Min(call.end, pre.len)
            from == Min(call.at, e)
        IN  /\ row = pre
            /\ ret.rendered = Styled(pre, from, e - 1, "None") \o << <<"reset", "">> >>

\* --------------------------------------------------------------------- C16
\* The editor as it was when the last key was read.
Before == keyed.before[1].editor

\* The last key was read in Normal mode and the process_keypress that began
\* with a key in Normal mode has returned: the key was handled at once, or
\* it is the key that ended the prompt which a Normal-mode key opened.
NormalKeyHandled ==
    /\ keyed # NoKey
    /\ keyed.fate = "ok"
    /\ frames = <<>>
    /\ Before.mode = "Normal"

\* C16: in Normal mode, when an operator is pending the next key never
\* leaves an operator pending, whatever key it is.
C16_OperatorConsumedByNextKey ==
    (NormalKeyHandled /\ Before.command_state.operator_pending) =>
        ~editor.command_state.operator_pending

\* --------------------------------------------------------------------- C17
\* The key that the returned process_keypress began with: the last key, or
\* the search trigger when the last key ended a search prompt.
FirstKey ==
    IF keyed.before[1].frames = <<>> THEN keyed.key
    ELSE IF keyed.before[1].frames[1].purpose = "search" THEN "/"
    ELSE "Ctrl-f"

\* C17: in Normal mode, when a count is pending the next key that is
\* neither a digit nor an operator key leaves no count pending once it is
\* processed, whatever key it is.
C17_CountConsumedByNextKey ==
    (NormalKeyHandled /\ HasCount(Before.command_state)
        /\ ~IsAsciiDigit(FirstKey) /\ FirstKey \notin {"d", "y"}) =>
        ~HasCount(editor.command_state)

\* --------------------------------------------------------------------- C18
\* C18: in Normal mode a motion key h, j, k, l or an arrow key moves the
\* cursor by as many single steps as the pending count says (one without a
\* count) and leaves CommandState empty.
C18_MotionRepeatsCount ==
    (NormalKeyHandled /\ keyed.before[1].frames = <<>>
        /\ keyed.key \in {"h", "j", "k", "l", "Left", "Down", "Up", "Right"}) =>
        /\ editor.cursor_position =
               MoveCursorTimes(Before, ArrowOf(keyed.key),
                               Rounds(Before.document, GetCount(Before.command_state))
                              ).cursor_position
        /\ IsEmpty(editor.command_state)

\* --------------------------------------------------------------------- C19
\* The last key was an operator key pressed in Normal mode while the same
\* operator was pending.
OperatorRepeated ==
    /\ NormalKeyHandled
    /\ keyed.before[1].frames = <<>>
    /\ keyed.key \in {"d", "y"}
    /\ Before.command_state.operator_pending
    /\ Before.command_state.current_operator = <<keyed.key>>

NormalKeyRead ==
    /\ keyed # NoKey
    /\ keyed.before[1].frames = <<>>
    /\ Before.mode = "Normal"

\* C20: in Normal mode a digit key that starts or continues a count makes
\* pending_count the count before it times ten plus the digit, so that a
\* run of digits leaves its decimal value, at least 1, and changes nothing
\* else of the session; a `0` with no count begun leaves no count.
C20_CountIsDecimalValue ==
    /\ (NormalKeyRead /\ IsAsciiDigit(keyed.key)
            /\ (keyed.key # "0" \/ HasCount(Before.command_state))) =>
           /\ keyed.fate = "ok"
           /\ editor = [Before EXCEPT !.command_state.count =
                  <<TimesTenPlus(IF HasCount(Before.command_state)
                                 THEN Before.command_state.count[1] ELSE <<0>>,
                                 DigitOf[keyed.key])>>]
           /\ editor.command_state.count # << <<0>> >>
    /\ (NormalKeyRead /\ keyed.key = "0" /\ ~HasCount(Before.command_state)) =>
           ~HasCount(editor.command_state)

\* --------------------------------------------------------------------- C21
\* C21: in Normal mode a key that no arm names, pressed while an operator
\* is pending, is not fatal and loses no data: afterwards nothing is
\* pending, the mode is Normal, a status message has been set for the abort
\* (the message is not the one shown before the key), and the rows of the
\* document are what they were.
C21_InvalidKeyAborts ==
    (NormalKeyRead /\ Before.command_state.operator_pending
        /\ keyed.key \in {"Esc", "F1"}) =>
        /\ keyed.fate = "ok"
        /\ IsEmpty(editor.command_state)
        /\ ~editor.command_state.operator_pending
        /\ editor.mode = "Normal"
        /\ editor.status_message # Before.status_message
        /\ editor.document.rows = Before.document.rows

\* --------------------------------------------------------------------- C22
\* The last key was read by process_keypress: by the one that run() calls
\* or by the one that the Insert-mode Ctrl-O arm calls.
ProcessKeypressRead ==
    /\ keyed # NoKey
    /\ \/ keyed.before[1].frames = <<>>
       \/ keyed.before[1].frames[Len(keyed.before[1].frames)].at = "ctrl_o"

\* C22: Esc read by process_keypress in Insert, Visual, VisualLine or
\* Command mode leaves the session in Normal mode with no pending count, no
\* pending operator and no selection anchor.
C22_EscReturnsToNormal ==
    (ProcessKeypressRead /\ keyed.key = "Esc"
        /\ Before.mode \in {"Insert", "Visual", "VisualLine", "Command"}) =>
        /\ keyed.fate = "ok"
        /\ editor.mode = "Normal"
        /\ ~HasCount(editor.command_state)
        /\ ~editor.command_state.operator_pending
        /\ editor.command_state.current_operator = <<>>
        /\ editor.selection_start = <<>>

\* Esc pressed in Visual mode, where an anchor was set: Normal mode, no
\* anchor.
C22_Witness ==
    /\ ProcessKeypressRead
    /\ keyed.key = "Esc"
    /\ Before.mode = "Visual"
    /\ Before.selection_start # <<>>
    /\ editor.mode = "Normal"
    /\ editor.selection_start = <<>>

\* --------------------------------------------------------------------- C23
\* The keys of Normal mode that start an insertion.
InsertTriggers == {"i", "I", "a", "A", "o", "O"}

\* In Normal mode, whatever is pending, an insert key read by the
\* process_keypress of run() leaves Insert mode and an empty CommandState.
InsertKeyEntersInsert ==
    (NormalKeyRead /\ keyed.key \in InsertTriggers) =>
        /\ keyed.fate = "ok"
        /\ editor.mode = "Insert"
        /\ IsEmpty(editor.command_state)
        /\ ~editor.command_state.operator_pending

\* C23: the session starts in Normal mode, and in Normal mode each of the
\* keys i, I, a, A, o, O, whatever count or operator is pending, leaves the
\* session in Insert mode with an empty CommandState.
C23_InsertKeysEnterInsert ==
    /\ editor.mode = "Normal"
    /\ []InsertKeyEntersInsert

\* `o` pressed with a count and an operator pending: Insert mode, nothing
\* pending.
C23_Witness ==
    /\ NormalKeyRead
    /\ keyed.key = "o"
    /\ HasCount(Before.command_state)
    /\ Before.command_state.operator_pending
    /\ editor.mode = "Insert"
    /\ IsEmpty(editor.command_state)

C25_AnchorOnlyInVisual ==
    (editor.selection_start # <<>>) <=> (editor.mode \in {"Visual", "VisualLine"})

\* Insert-mode Ctrl-O followed by `v`: the session is back in Insert mode
\* and holds no anchor.
C25_Witness ==
    /\ keyed.key = "v"
    /\ keyed.before[1].frames # <<>>
    /\ keyed.before[1].frames[1].at = "ctrl_o"
    /\ editor.mode = "Insert"
    /\ editor.selection_start = <<>>

QuitWarning(times) ==
    MessageWith("WARNING! File has unsaved changes. Press Ctrl-Q more times to quit.",
                <<times>>)

\* C27: with unsaved changes Ctrl-Q sets should_quit only when the counter
\* has reached 0, after QUIT_TIMES presses that each took one off the
\* counter and showed the warning; any other key, after which the document
\* still has unsaved changes, puts the counter back to QUIT_TIMES; with a
\* clean document one Ctrl-Q quits; the counter stays in 0..QUIT_TIMES.
C27_QuitNeedsFullSequence ==
    /\ editor.quit_times \in 0..QUIT_TIMES
    /\ (ProcessKeypressRead /\ keyed.key = "Ctrl-q") =>
           IF Before.document.dirty /\ Before.quit_times > 0
           THEN /\ ~editor.should_quit
                /\ editor.quit_times = Before.quit_times - 1
                /\ editor.status_message = QuitWarning(Before.quit_times)
           ELSE editor.should_quit
    /\ (ProcessKeypressRead /\ keyed.key # "Ctrl-q" /\ keyed.fate = "ok"
            /\ frames = <<>> /\ editor.document.dirty) =>
           /\ ~editor.should_quit
           /\ editor.quit_times = QUIT_TIMES

\* --------------------------------------------------------------------- C28
\* The last key made save_document return: Ctrl-S on a document with a
\* file name, or the key that ended the save-as prompt.
SaveReturned ==
    /\ keyed # NoKey
    /\ frames = <<>>
    /\ \/ keyed.before[1].frames = <<>> /\ keyed.key = "Ctrl-s"
       \/ /\ keyed.before[1].frames # <<>>
          /\ keyed.before[1].frames[Len(keyed.before[1].frames)].purpose = "save_as"

\* The write of that save_document failed: only then does the message bar
\* hold its error message.
SaveFailed ==
    SaveReturned /\ editor.status_message = Message("Error writing file!")

\* C28: when the write of a save fails, the session is not ended: it has
\* set the error message, left rows and dirty flag as they were, and goes
\* on reading keys.
C28_SaveFailureNotFatal ==
    SaveFailed =>
        /\ keyed.fate = "ok"
        /\ ~panicked
        /\ editor.document.rows = Before.document.rows
        /\ editor.document.dirty = Before.document.dirty

\* --------------------------------------------------------------------- C29
\* C29: a key clears the dirty flag only with a successful save, a
\* successful save leaves the flag false, and a failed save or an aborted
\* save-as prompt leaves the flag and the file name as they were.
C29_DirtyClearedOnlyBySave ==
    /\ (keyed # NoKey /\ Before.document.dirty /\ ~editor.document.dirty) =>
           /\ SaveReturned
           /\ editor.status_message = Message("File saved successfully.")
    /\ SaveReturned =>
           /\ editor.status_message = Message("File saved successfully.") =>
                  ~editor.document.dirty
           /\ editor.status_message \in {Message("Error writing file!"),
                                          Message("Save aborted.")} =>
                  /\ editor.document.dirty = Before.document.dirty
                  /\ editor.document.file_name = Before.document.file_name

\* --------------------------------------------------------------------- C30
\* The last key ended a prompt of the Normal-mode Ctrl-O arm and the arm
\* has returned.
OpenReturned ==
    /\ keyed # NoKey
    /\ keyed.fate = "ok"
    /\ frames = <<>>
    /\ keyed.before[1].frames # <<>>
    /\ keyed.before[1].frames[1].purpose \in {"open_confirm", "open_file"}

\* After a failed open at startup the session holds the empty document,
\* at the origin.
StartupOpenFailed ==
    editor.status_message = Message("ERR: Could not open file: ") =>
        /\ editor.document = EmptyDocument
        /\ editor.cursor_position = Origin
        /\ editor.offset = Origin

\* When the Ctrl-O arm returns, either it reports the file opened and
\* cursor and offset are at the origin, or the document with its dirty
\* flag, the cursor and the offset are what they were and the session runs
\* on.
OpenKeepsOrResets ==
    OpenReturned =>
        IF editor.status_message = Message("Opened file: ")
        THEN /\ editor.cursor_position = Origin
             /\ editor.offset = Origin
             /\ ~editor.document.dirty
        ELSE /\ editor.document = Before.document
             /\ editor.cursor_position = Before.cursor_position
             /\ editor.offset = Before.offset
             /\ ~editor.should_quit
             /\ ~panicked

\* C30: a failed open exposes no partial document: at startup the session
\* then holds an empty document and the error message; on Ctrl-O the
\* document, its dirty flag, the cursor and the offset are unchanged and
\* the session runs on; cursor and offset go to the origin only after an
\* open that succeeded.
C30_FailedOpenKeepsDocument ==
    /\ StartupOpenFailed
    /\ []OpenKeepsOrResets

\* Ctrl-O on a dirty document, away from the origin, confirmed with `y`,
\* and the open failed: document, cursor and offset are as before.
C30_Witness ==
    /\ OpenReturned
    /\ editor.status_message = Message("Error opening file: ")
    /\ editor.document.dirty
    /\ editor.offset # Origin
    /\ editor.cursor_position # Origin
    /\ editor.document = Before.document

\* --------------------------------------------------------------------- C31
\* The last key changed the rows of the document, set its dirty flag, or
\* cleared it.
RowsChanged == editor.document.rows # Before.document.rows

DirtySet == editor.document.dirty /\ ~Before.document.dirty

DirtyCleared == ~editor.document.dirty /\ Before.document.dirty

\* The last key is one of the editing keys: a Char, Delete or Backspace
\* read in Insert mode, `x`, `o` or `O` read in Normal mode, or the key that
\* ended the prompts of a Normal-mode Ctrl-O with a file opened.
EditingKey ==
    \/ /\ ProcessKeypressRead
       /\ Before.mode = "Insert"
       /\ IsChar(keyed.key) \/ keyed.key \in {"Delete", "Backspace"}
    \/ /\ ProcessKeypressRead
       /\ Before.mode = "Normal"
       /\ keyed.key \in {"x", "o", "O"}
    \/ /\ OpenReturned
       /\ Before.mode = "Normal"
       /\ editor.status_message = Message("Opened file: ")

\* The last key made save_document return after a successful write.
SavedNow ==
    SaveReturned /\ editor.status_message = Message("File saved successfully.")

\* C31 as stated: a key changes the rows or the dirty flag of the document
\* only if it is an editing key (a Char, Delete or Backspace in Insert mode,
\* `x`, `o`, `O` or a successful Ctrl-O open in Normal mode); every other
\* key leaves rows and dirty flag as they were.
C31_OnlyEditingKeysChange ==
    (keyed # NoKey /\ ~EditingKey) =>
        /\ editor.document.rows = Before.document.rows
        /\ editor.document.dirty = Before.document.dirty

\* C31 amended: a key changes the rows or sets the dirty flag only if it
\* is an editing key, and clears the dirty flag only if it is a successful
\* save or a successful Ctrl-O open; `a` in Normal mode switches to Insert
\* mode and inserts nothing.
C31_OnlyEditingAndSavingChange ==
    keyed # NoKey =>
        /\ (RowsChanged \/ DirtySet) => EditingKey
        /\ DirtyCleared => (SavedNow \/ (EditingKey /\ OpenReturned))
        /\ (ProcessKeypressRead /\ Before.mode = "Normal" /\ keyed.key = "a") =>
               /\ editor.mode = "Insert"
               /\ ~RowsChanged
               /\ editor.document.dirty = Before.document.dirty

\* `a` was pressed in Normal mode on an edited document with rows, and the
\* session is in Insert mode.
C31_Witness ==
    /\ ProcessKeypressRead
    /\ Before.mode = "Normal"
    /\ keyed.key = "a"
    /\ Before.document.rows # <<>>
    /\ Before.document.dirty
    /\ editor.mode = "Insert"

\* --------------------------------------------------------------------- C32
\* The last key was a Char read by process_keypress in Insert mode.
InsertCharRead ==
    /\ ProcessKeypressRead
    /\ keyed.fate = "ok"
    /\ Before.mode = "Insert"
    /\ IsChar(keyed.key)

BackspaceRead ==
    /\ ProcessKeypressRead
    /\ keyed.fate = "ok"
    /\ Before.mode = "Insert"
    /\ keyed.key = "Backspace"

C34_KeyReadOnlyAfterRefresh == [][keyed' # NoKey => keyed = NoKey]_vars

\* --------------------------------------------------------------------- C35
\* Thread t executes highlight_line of the shared highlighter.
InHighlightLine(t) == threads.pc[t] = "if_let" /\ ~threads.poisoned

\* Thread t has got the shared highlighter from get_or_init.
HasHighlighter(t) ==
    threads.pc[t] \in {"lock", "if_let", "unlock", "highlight_match", "done"}

\* The highlighter is built at most once, and once when a thread has it;
\* at most one thread is in highlight_line; a thread whose lock() failed
\* ends with one None per byte of its row, a thread whose lock() succeeded
\* with the classification of its row.
ThreadsSafe ==
    /\ threads.built <= 1
    /\ \A t \in ThreadIds : HasHighlighter(t) => threads.built = 1
    /\ \A t, u \in ThreadIds : (InHighlightLine(t) /\ InHighlightLine(u)) => t = u
    /\ \A t \in ThreadIds :
           threads.pc[t] = "done" =>
               /\ threads.rows[t].is_highlighted
               /\ threads.rows[t].highlighting =
                      IF threads.poisoned
                      THEN [k \in 1..ByteLen(threads.rows[t].string) |-> "None"]
                      ELSE OrgHighlightLine(threads.rows[t].string)

\* C35: when several threads highlight markup rows at once, the shared
\* highlighter is constructed exactly once, at most one thread is in its
\* highlight_line at a time, no thread ends in an error or a panic, and
\* every thread finishes (none waits for the lock for ever); a failed
\* lock() gives the row an all-None highlighting.
C35_HighlighterOnceAndExclusive ==
    /\ []ThreadsSafe
    /\ [](~panicked)
    /\ <>(\A t \in ThreadIds : threads.pc[t] = "done")

\* One thread is in highlight_line while a second waits for the lock and
\* a third has not yet asked for the highlighter.
C35_Witness ==
    \E t, u, v \in ThreadIds :
        /\ InHighlightLine(t)
        /\ threads.pc[u] = "lock"
        /\ threads.pc[v] = "get_or_init"
        /\ threads.built = 1

\* --------------------------------------------------------------------- C36
\* The last key was `o` or `O` read in Normal mode with the cursor on a
\* row of the document.
OpenLineRead ==
    /\ ProcessKeypressRead
    /\ keyed.fate = "ok"
    /\ Before.mode = "Normal"
    /\ keyed.key \in {"o", "O"}
    /\ Before.cursor_position.y < DocLen(Before.document)

\* C36: `o` on row y makes an empty row at index y+1 and `O` one at index
\* y, the old row y moving to y+1; both end in Insert mode with the cursor
\* at column 0 of the new row.
C36_OpenLineCursorOnNewRow ==
    OpenLineRead =>
        LET y == Before.cursor_position.y
            rows == Before.document.rows
            new == IF keyed.key = "o" THEN y + 1 ELSE y
        IN  /\ editor.mode = "Insert"
            /\ editor.document.rows =
                   SubSeq(rows, 1, new) \o << <<>> >> \o SubSeq(rows, new + 1, Len(rows))
            /\ editor.cursor_position = [x |-> 0, y |-> new]

\* --------------------------------------------------------------------- C37
\* The cursor of the editor lies inside the window that starts at its
\* offset.
InView(ed) ==
    /\ ed.offset.y <= ed.cursor_position.y
    /\ ed.cursor_position.y < ed.offset.y + ed.terminal.height
    /\ ed.offset.x <= ed.cursor_position.x
    /\ ed.cursor_position.x < ed.offset.x + ed.terminal.width

\* C37: whenever process_keypress has returned (no call waits for a key),
\* the cursor lies inside the window.
C37_CursorInView ==
    (keyed # NoKey /\ keyed.fate = "ok" /\ frames = <<>>) => InView(editor)

\* A key has been handled and the window has scrolled both down and to
\* the right.
C37_Witness ==
    /\ keyed # NoKey
    /\ keyed.fate = "ok"
    /\ frames = <<>>
    /\ editor.offset.y > 0
    /\ editor.offset.x > 0

\* --------------------------------------------------------------------- C38
\* The process_keypress that the Insert-mode Ctrl-O arm called has ended
\* with the last key: it has returned and the arm has gone on, or it has
\* failed.
CtrlOKeyHandled ==
    /\ keyed # NoKey
    /\ keyed.before[1].frames # <<>>
    /\ keyed.before[1].frames[1].at = "ctrl_o"
    /\ frames = <<>>

\* C38: when the key that follows an Insert-mode Ctrl-O has been
\* processed, the session goes on in Insert mode with an empty
\* CommandState and no selection anchor.
C38_CtrlOReturnsToInsert ==
    CtrlOKeyHandled =>
        /\ keyed.fate = "ok"
        /\ editor.mode = "Insert"
        /\ IsEmpty(editor.command_state)
        /\ ~IsOperatorPending(editor.command_state)
        /\ editor.selection_start = <<>>

\* --------------------------------------------------------------------- C39
\* The call that read the last key, when it was a prompt of search_document.
SearchFrame == keyed.before[1].frames[Len(keyed.before[1].frames)]

SearchPromptRead ==
    /\ keyed # NoKey
    /\ keyed.fate = "ok"
    /\ keyed.before[1].frames # <<>>
    /\ SearchFrame.at = "prompt"
    /\ SearchFrame.purpose \in {"search", "search_clear"}

\* The last key started a search.
SearchStarted ==
    /\ keyed # NoKey
    /\ keyed.fate = "ok"
    /\ keyed.before[1].frames = <<>>
    /\ Before.mode = "Normal"
    /\ keyed.key \in {"/", "Ctrl-f"}

\* The last key ended the prompt of a search without a query: Esc, or
\* Enter with nothing typed.
SearchCancelled ==
    /\ SearchPromptRead
    /\ frames = <<>>
    /\ keyed.key = "Esc" \/ SearchFrame.result = <<>>

\* C39: search_document keeps the position the cursor had when the search
\* started for as long as its prompt runs, and a search that ends without
\* a query (Esc, or Enter on an empty input) leaves the cursor at that
\* position; when a search has ended, with a query or without, the session
\* has no word to highlight.
C39_SearchRestoresCursor ==
    /\ SearchStarted =>
           /\ frames # <<>>
           /\ frames[Len(frames)].old_position = Before.cursor_position
           /\ editor.cursor_position = Before.cursor_position
    /\ (SearchPromptRead /\ frames # <<>>) =>
           frames[Len(frames)].old_position = SearchFrame.old_position
    /\ SearchCancelled => editor.cursor_position = SearchFrame.old_position
    /\ (SearchPromptRead /\ frames = <<>>) => editor.highlighted_word = <<>>

\* Esc ended a search whose prompt had moved the cursor away from where
\* it started and had a word highlighted.
C39_Witness ==
    /\ SearchCancelled
    /\ keyed.key = "Esc"
    /\ Before.cursor_position # SearchFrame.old_position
    /\ Before.highlighted_word # <<>>
    /\ SearchFrame.old_position # Origin
    /\ editor.cursor_position = SearchFrame.old_position

\* --------------------------------------------------------------------- C40
\* `G` was read by process_keypress in Normal mode and handled.
GotoLineRead ==
    /\ NormalKeyHandled
    /\ keyed.before[1].frames = <<>>
    /\ keyed.key = "G"

\* The pending count when `G` was read, as a number: the count itself up
\* to MaxRows, and MaxRows + 1 for every larger count.
GotoCount == SmallValue(Before.command_state.count[1], MaxRows + 1)

\* C40: in Normal mode `G` with a pending count n moves the cursor to
\* (0, n - 1) when n is at most the number of rows and leaves the cursor
\* where it was when n is larger; without a count it moves the cursor to
\* column 0 of the last row (row 0 for an empty document); in every case
\* CommandState is empty afterwards.
C40_GotoLine ==
    GotoLineRead =>
        /\ IF Before.command_state.count # <<>>
           THEN IF GotoCount <= DocLen(Before.document)
                THEN editor.cursor_position = [x |-> 0, y |-> GotoCount - 1]
                ELSE editor.cursor_position = Before.cursor_position
           ELSE editor.cursor_position =
                    [x |-> 0,
                     y |-> IF DocLen(Before.document) = 0 THEN 0
                           ELSE DocLen(Before.document) - 1]
        /\ IsEmpty(editor.command_state)
        /\ ~editor.command_state.operator_pending

\* `3G` pressed on the first row of a document of three rows: the cursor
\* stands at the start of the third row and nothing is pending.
C40_Witness ==
    /\ GotoLineRead
    /\ Before.command_state.count = << <<3>> >>
    /\ DocLen(Before.document) = 3
    /\ Before.cursor_position.y = 0
    /\ editor.cursor_position = [x |-> 0, y |-> 2]
    /\ IsEmpty(editor.command_state)

====
